---- MODULE Spec2Model ----
(***************************************************************************)
(* A model of APIFuzz: the worker pool that drains the endpoint queue      *)
(* (core/base.py run_threads and the four dialect workers) and the schema  *)
(* walker that expands $ref graphs (core/openapi3.py mock_schema).         *)
(***************************************************************************)
EXTENDS Integers, Sequences, FiniteSets, Bags, TLC

(***************************************************************************)
(* Bounds of the model.                                                    *)
(***************************************************************************)
MaxThreads == 2
MaxEndpoints == 2
\* Threads and endpoints of one run, taken together.
MaxLoad == 4
NumSchemas == 2

(***************************************************************************)
(* Configuration universe.                                                 *)
(***************************************************************************)
RestDialects == {"openapi3", "swagger2"}
SoapDialects == {"wsdl", "asmx"}
Dialects == RestDialects \cup SoapDialects

\* One slot per thread run_threads can start, plus one spare slot so that a
\* spawn loop running once too often would be visible.
Workers == 1..(MaxThreads + 1)

\* What requests.request can hand back: a status code and whether the body
\* carries the interception signature b"Burp Suite".  The workers pass the
\* code through str() and compare it with "200" only, so the answers taken
\* are 200 with and without the signature.
Responses ==
  { [code |-> 200, burp |-> FALSE],
    [code |-> 200, burp |-> TRUE] }
NoResp == [code |-> 0, burp |-> FALSE]

\* str(err) of what send_request raises: base.py raises Exception("timeout")
\* for requests Timeout and re-raises anything else.
ErrTexts == {"timeout"}

\* A namespace string is a stem that does not end in "/" followed by
\* `slashes` trailing "/" characters.
DefaultNs == [stem |-> "http://tempuri.org", slashes |-> 1]
PageNamespaces ==
  { DefaultNs, [stem |-> "http://host/Service", slashes |-> 0] }
ServiceUrlNs == [stem |-> "http://host/Service", slashes |-> 1]

VARIABLES
  dialect,      \* which BaseFuzzer subclass create_fuzzer built
  threads,      \* self.threads
  nEndpoints,   \* len(self.endpoints) after extract_endpoints
  delay,        \* self.delay (0 or positive)
  page_ns,      \* what _extract_namespace_from_page returns (ASMX)
  queue,        \* self.queue: the items still to be taken
  unfinished,   \* self.queue.unfinished_tasks
  results,      \* self.results, as the multiset of its rows: no code reads a
                \* row by its position
  lock,         \* self.lock: 0 when free, else the worker holding it
  progress,     \* self.progress.n
  mainpc,       \* position of the thread running fuzz()
  spawned,      \* loop index of run_threads
  report,       \* what show_summary/save_results read
  wpc,          \* position of each worker thread
  wtask,        \* the endpoint a worker took with queue.get()
  wresp,        \* the worker's local resp / response1 / response2
  wpend,        \* the record a worker is about to append, and where it goes on
  wreq,         \* ASMX: which of the two requests the worker is on
  deq,          \* history: how often each endpoint was dequeued
  failed,       \* history: prepare_request or send_request raised for the
                \* endpoint
  sent,         \* history: how often send_request was called for each
                \* endpoint
  schemas,      \* self.schemas: components/schemas of the document
  stack,        \* the activation records of mock_schema, innermost last
  visited_refs, \* the visited_refs set shared by all activations
  ret,          \* the value the innermost finished activation returned
  gen,          \* one call of generate_test_value or of
                \* simplify_error_message: arguments and result
  paths,        \* the parsed document extract_endpoints walks: for REST
                \* spec_data["paths"], per path the keys of its path item;
                \* for WSDL self.services, self.bindings, self.port_types
  endpoints,    \* self.endpoints as extract_endpoints fills it
  cursor,       \* the position of the two loops of extract_endpoints
  build         \* one call of prepare_request: who builds, the endpoint, the
                \* operator's extra headers and the request under construction

cfgVars == <<dialect, threads, nEndpoints, delay, page_ns>>
sharedVars == <<queue, unfinished, results, lock, progress>>
mainVars == <<mainpc, spawned, report>>
workerVars == <<wpc, wtask, wresp, wpend, wreq>>
histVars == <<deq, failed, sent>>
dispatchVars == <<cfgVars, sharedVars, mainVars, workerVars, histVars>>
sw == <<schemas, stack, visited_refs, ret>>
fn == <<gen, paths, endpoints, cursor, build>>
vars == <<dispatchVars, sw, fn>>

Endpoints == 1..nEndpoints
NoPend == [status |-> "", cont |-> ""]

(***************************************************************************)
(* Pure helpers of the dispatcher.                                         *)
(***************************************************************************)
Digit(d) ==
  CASE d = 0 -> "0" [] d = 1 -> "1" [] d = 2 -> "2" [] d = 3 -> "3"
    [] d = 4 -> "4" [] d = 5 -> "5" [] d = 6 -> "6" [] d = 7 -> "7"
    [] d = 8 -> "8" [] d = 9 -> "9"

\* str(resp.status_code): the decimal rendering of a non-negative integer.
RECURSIVE Str(_)
Str(n) == IF n < 10 THEN Digit(n) ELSE Str(n \div 10) \o Digit(n % 10)

\* self.results.append(row)
ListAppend(rows, row) == rows (+) SetToBag({row})

\* for i in range(self.threads)
SpawnMoreOffByOne(i, n) == i <= n
SpawnMore(i, n) == i < n

\* queue.join(): blocks until unfinished_tasks is zero.
JoinReadyOnEmpty(u, q) == q = <<>>
JoinReady(u, q) == u = 0

\* queue.get(): the item handed out is removed from the queue.
DequeuePeek(q) == q
Dequeue(q) == Tail(q)

\* The REST workers: status = str(resp.status_code), reclassified to "error"
\* when it is "200" and the body contains b"Burp Suite".
RestStatus(r) == IF Str(r.code) = "200" /\ r.burp THEN "error" ELSE Str(r.code)

\* The SOAP workers: WSDL records str(response.status_code); ASMX passes
\* str(getattr(response, 'status_code', ...)) to _show_all_result.
SoapStatus(r) == Str(r.code)

\* The status recorded by the except branch: WSDL records "ERROR", ASMX
\* passes error_msg = str(e) in the status position of _show_all_result.
FailStatus(d, e) == IF d = "wsdl" THEN "ERROR" ELSE e

\* ns.rstrip('/')
RStripSlash(ns) == [ns EXCEPT !.slashes = 0]

\* _get_fallback_namespace: f"{scheme}://{host}/{service}/"
FallbackNamespace == ServiceUrlNs

\* need_fallback = ns1.rstrip('/') != fallback_ns.rstrip('/'); WSDL has no
\* second request.
NeedFallbackAlways(d, ns1) == d = "asmx"
NeedFallback(d, ns1) ==
  d = "asmx" /\ RStripSlash(ns1) # RStripSlash(FallbackNamespace)

InFlight == {w \in Workers : wpc[w] = "send"}

(***************************************************************************)
(* Initial state: a constructed fuzzer on which fuzz() is about to run.    *)
(***************************************************************************)
\* Values mock_schema can return: a string, a one-element list or a mapping
\* (kept as the sequence of its items in insertion order).
NoValue == [k |-> "none", s |-> "", kids |-> <<>>]

\* No mock_schema call is in progress.
WalkerIdle ==
  /\ schemas = <<>>
  /\ stack = <<>>
  /\ visited_refs = {}
  /\ ret = NoValue

\* The fuzzer after construction and extract_endpoints.  The REST workers
\* call time.sleep(self.delay) whatever the delay is; the SOAP workers sleep
\* only when self.delay > 0.
InitDispatch ==
  /\ dialect \in Dialects
  /\ threads \in 1..MaxThreads
  /\ nEndpoints \in 0..MaxEndpoints
  /\ threads + nEndpoints <= MaxLoad
  /\ page_ns \in IF dialect = "asmx" THEN PageNamespaces ELSE {DefaultNs}
  /\ delay \in IF dialect \in SoapDialects THEN {0, 1} ELSE {1}
  /\ queue = <<>>
  /\ unfinished = 0
  /\ results = EmptyBag
  /\ lock = 0
  /\ progress = 0
  /\ mainpc = "fuzz"
  /\ spawned = 0
  /\ report = EmptyBag
  /\ wpc = [w \in Workers |-> "idle"]
  /\ wtask = [w \in Workers |-> 0]
  /\ wresp = [w \in Workers |-> NoResp]
  /\ wpend = [w \in Workers |-> NoPend]
  /\ wreq = [w \in Workers |-> 0]
  /\ deq = [t \in 1..MaxEndpoints |-> 0]
  /\ failed = [t \in 1..MaxEndpoints |-> FALSE]
  /\ sent = [t \in 1..MaxEndpoints |-> 0]

\* No generate_test_value, extract_endpoints or prepare_request call is in
\* progress.
NoCall == [pc |-> "idle"]
HelpersIdle ==
  /\ gen = NoCall
  /\ paths = <<>>
  /\ endpoints = <<>>
  /\ cursor = NoCall
  /\ build = NoCall

Init == InitDispatch /\ WalkerIdle /\ HelpersIdle

(***************************************************************************)
(* The thread running fuzz().                                              *)
(***************************************************************************)
\* fuzz(): extract_endpoints found nothing, return before any thread starts.
FuzzNoEndpoints ==
  /\ mainpc = "fuzz"
  /\ nEndpoints = 0
  /\ mainpc' = "done"
  /\ UNCHANGED <<cfgVars, sharedVars, spawned, report, workerVars, histVars, sw, fn>>

\* fuzz(): for endpoint in self.endpoints: self.queue.put(endpoint)
FuzzEnqueue ==
  /\ mainpc = "fuzz"
  /\ nEndpoints > 0
  /\ queue' = [i \in 1..nEndpoints |-> i]
  /\ unfinished' = nEndpoints
  /\ mainpc' = "spawn"
  /\ UNCHANGED <<cfgVars, results, lock, progress, spawned, report,
                 workerVars, histVars, sw, fn>>

\* run_threads(): one pass of the for loop, Thread(target=self.worker).start()
SpawnThread ==
  /\ mainpc = "spawn"
  /\ SpawnMore(spawned, threads)
  /\ spawned' = spawned + 1
  /\ wpc' = [wpc EXCEPT ![spawned + 1] = "start"]
  /\ UNCHANGED <<cfgVars, sharedVars, mainpc, report, wtask, wresp, wpend,
                 wreq, histVars, sw, fn>>

\* run_threads(): the for loop is over, the thread enters self.queue.join()
SpawnDone ==
  /\ mainpc = "spawn"
  /\ ~SpawnMore(spawned, threads)
  /\ mainpc' = "join"
  /\ UNCHANGED <<cfgVars, sharedVars, spawned, report, workerVars, histVars, sw, fn>>

\* run_threads(): self.queue.join() returns
JoinReturn ==
  /\ mainpc = "join"
  /\ JoinReady(unfinished, queue)
  /\ mainpc' = "summary"
  /\ UNCHANGED <<cfgVars, sharedVars, spawned, report, workerVars, histVars, sw, fn>>

\* fuzz(): show_summary() and save_results() read self.results
Summary ==
  /\ mainpc = "summary"
  /\ report' = results
  /\ mainpc' = "done"
  /\ UNCHANGED <<cfgVars, sharedVars, spawned, workerVars, histVars, sw, fn>>

MainStep ==
  \/ FuzzNoEndpoints
  \/ FuzzEnqueue
  \/ SpawnThread
  \/ SpawnDone
  \/ JoinReturn
  \/ Summary

(***************************************************************************)
(* Worker threads.                                                         *)
(***************************************************************************)
\* Thread.run calls self.worker() with no argument.  WSDLFuzzer.worker is
\* declared worker(self, thread_id), so the call raises TypeError and the
\* thread ends before its loop starts.
WorkerEntryTypeError(w) ==
  /\ wpc[w] = "start"
  /\ dialect = "wsdl"
  /\ wpc' = [wpc EXCEPT ![w] = "dead"]
  /\ UNCHANGED <<cfgVars, sharedVars, mainVars, wtask, wresp, wpend, wreq,
                 histVars, sw, fn>>

WorkerEntry(w) ==
  /\ wpc[w] = "start"
  /\ dialect # "wsdl"
  /\ wpc' = [wpc EXCEPT ![w] = "loop"]
  /\ UNCHANGED <<cfgVars, sharedVars, mainVars, wtask, wresp, wpend, wreq,
                 histVars, sw, fn>>

\* REST: while not self.queue.empty()
RestCheckEmpty(w) ==
  /\ wpc[w] = "loop"
  /\ dialect \in RestDialects
  /\ wpc' = [wpc EXCEPT ![w] = IF queue = <<>> THEN "exit" ELSE "get"]
  /\ UNCHANGED <<cfgVars, sharedVars, mainVars, wtask, wresp, wpend, wreq,
                 histVars, sw, fn>>

\* REST: self.queue.get() blocks while the queue is empty.
RestGet(w) ==
  /\ wpc[w] = "get"
  /\ queue # <<>>
  /\ wtask' = [wtask EXCEPT ![w] = Head(queue)]
  /\ deq' = [deq EXCEPT ![Head(queue)] = @ + 1]
  /\ queue' = Dequeue(queue)
  /\ wpc' = [wpc EXCEPT ![w] = "build"]
  /\ UNCHANGED <<cfgVars, unfinished, results, lock, progress, mainVars,
                 wresp, wpend, wreq, failed, sent, sw, fn>>

\* SOAP: self.queue.get(timeout=1) hands out an item.
SoapGet(w) ==
  /\ wpc[w] = "loop"
  /\ dialect \in SoapDialects
  /\ queue # <<>>
  /\ wtask' = [wtask EXCEPT ![w] = Head(queue)]
  /\ deq' = [deq EXCEPT ![Head(queue)] = @ + 1]
  /\ queue' = Dequeue(queue)
  /\ wreq' = [wreq EXCEPT ![w] = 1]
  /\ wpc' = [wpc EXCEPT ![w] = "build"]
  /\ UNCHANGED <<cfgVars, unfinished, results, lock, progress, mainVars,
                 wresp, wpend, failed, sent, sw, fn>>

\* SOAP: self.queue.get(timeout=1) raises queue.Empty, the worker breaks.
SoapGetEmpty(w) ==
  /\ wpc[w] = "loop"
  /\ dialect \in SoapDialects
  /\ queue = <<>>
  /\ wpc' = [wpc EXCEPT ![w] = "exit"]
  /\ UNCHANGED <<cfgVars, sharedVars, mainVars, wtask, wresp, wpend, wreq,
                 histVars, sw, fn>>

\* prepare_request returns.  REST goes on to time.sleep(self.delay), SOAP
\* straight to send_request.
BuildOk(w) ==
  /\ wpc[w] = "build"
  /\ wpc' = [wpc EXCEPT ![w] = IF dialect \in RestDialects THEN "sleep" ELSE "send"]
  /\ sent' = IF dialect \in RestDialects THEN sent
             ELSE [sent EXCEPT ![wtask[w]] = @ + 1]
  /\ UNCHANGED <<cfgVars, sharedVars, mainVars, wtask, wresp, wpend, wreq,
                 deq, failed, sw, fn>>

\* prepare_request raises.  REST: the outer try has no except clause, only
\* finally, so the exception leaves the loop after task_done.  SOAP: the
\* except clause records the failure.
BuildRaise(w) ==
  /\ wpc[w] = "build"
  /\ \E e \in ErrTexts :
       IF dialect \in RestDialects
       THEN /\ wpc' = [wpc EXCEPT ![w] = "finally_raise"]
            /\ wpend' = wpend
       ELSE /\ wpc' = [wpc EXCEPT ![w] = "acquire"]
            /\ wpend' = [wpend EXCEPT ![w] =
                 [status |-> FailStatus(dialect, e), cont |-> "update_fail"]]
  /\ failed' = [failed EXCEPT ![wtask[w]] = TRUE]
  /\ UNCHANGED <<cfgVars, sharedVars, mainVars, wtask, wresp, wreq, deq, sent,
                 sw, fn>>

\* time.sleep(self.delay) returns and the REST worker records without
\* sending.
SleepDoneNoSend(w) ==
  /\ wpc[w] = "sleep"
  /\ wpc' = [wpc EXCEPT ![w] = IF dialect \in RestDialects THEN "record" ELSE "task_done"]
  /\ UNCHANGED <<cfgVars, sharedVars, mainVars, wtask, wresp, wpend, wreq,
                 histVars, sw, fn>>

\* time.sleep(self.delay) returns: REST before the send, SOAP after the
\* progress update.
SleepDone(w) ==
  /\ wpc[w] = "sleep"
  /\ wpc' = [wpc EXCEPT ![w] = IF dialect \in RestDialects THEN "send" ELSE "task_done"]
  /\ sent' = IF dialect \in RestDialects
             THEN [sent EXCEPT ![wtask[w]] = @ + 1] ELSE sent
  /\ UNCHANGED <<cfgVars, sharedVars, mainVars, wtask, wresp, wpend, wreq,
                 deq, failed, sw, fn>>

\* send_request returns a response.
SendReturn(w) ==
  /\ wpc[w] = "send"
  /\ \E r \in Responses :
       /\ wresp' = [wresp EXCEPT ![w] = r]
       /\ IF dialect \in RestDialects
          THEN /\ wpc' = [wpc EXCEPT ![w] = "record"]
               /\ wpend' = wpend
          ELSE /\ wpc' = [wpc EXCEPT ![w] = "acquire"]
               /\ wpend' = [wpend EXCEPT ![w] =
                    [status |-> SoapStatus(r),
                     cont |-> IF wreq[w] = 1 /\ NeedFallback(dialect, page_ns)
                              THEN "build" ELSE "update"]]
  /\ UNCHANGED <<cfgVars, sharedVars, mainVars, wtask, wreq, histVars, sw, fn>>

\* send_request raises.
SendRaise(w) ==
  /\ wpc[w] = "send"
  /\ \E e \in ErrTexts :
       IF dialect \in RestDialects
       THEN /\ wpc' = [wpc EXCEPT ![w] = "except"]
            /\ wpend' = wpend
       ELSE /\ wpc' = [wpc EXCEPT ![w] = "acquire"]
            /\ wpend' = [wpend EXCEPT ![w] =
                 [status |-> FailStatus(dialect, e), cont |-> "update_fail"]]
  /\ failed' = [failed EXCEPT ![wtask[w]] = TRUE]
  /\ UNCHANGED <<cfgVars, sharedVars, mainVars, wtask, wresp, wreq, deq, sent,
                 sw, fn>>

\* REST: self.results.append((method, url, status, ...)), no lock taken.
RestRecord(w) ==
  /\ wpc[w] = "record"
  /\ results' = ListAppend(results,
       [task |-> wtask[w], status |-> RestStatus(wresp[w])])
  /\ wpc' = [wpc EXCEPT ![w] = "update"]
  /\ wresp' = [wresp EXCEPT ![w] = NoResp]
  /\ UNCHANGED <<cfgVars, queue, unfinished, lock, progress, mainVars, wtask,
                 wpend, wreq, histVars, sw, fn>>

\* REST: except Exception as err: only the console line is written.
RestExcept(w) ==
  /\ wpc[w] = "except"
  /\ wpc' = [wpc EXCEPT ![w] = "update"]
  /\ UNCHANGED <<cfgVars, sharedVars, mainVars, wtask, wresp, wpend, wreq,
                 histVars, sw, fn>>

\* SOAP: with self.lock: (entering)
Acquire(w) ==
  /\ wpc[w] = "acquire"
  /\ lock = 0
  /\ lock' = w
  /\ wpc' = [wpc EXCEPT ![w] = "append"]
  /\ UNCHANGED <<cfgVars, queue, unfinished, results, progress, mainVars,
                 wtask, wresp, wpend, wreq, histVars, sw, fn>>

\* SOAP: self.results.append({...}), the lock being kept.
LockedAppendKeepLock(w) ==
  /\ wpc[w] = "append"
  /\ results' = ListAppend(results,
       [task |-> wtask[w], status |-> wpend[w].status])
  /\ wpc' = [wpc EXCEPT ![w] = wpend[w].cont]
  /\ wreq' = [wreq EXCEPT ![w] = IF wpend[w].cont = "build" THEN 2 ELSE @]
  /\ wresp' = [wresp EXCEPT ![w] = NoResp]
  /\ wpend' = [wpend EXCEPT ![w] = NoPend]
  /\ UNCHANGED <<cfgVars, queue, unfinished, lock, progress, mainVars, wtask,
                 histVars, sw, fn>>

\* SOAP: self.results.append({...}) inside the with block, which is then
\* left.  ASMX goes on to build the fallback request when the first request
\* was answered and the namespaces disagree.
LockedAppend(w) ==
  /\ wpc[w] = "append"
  /\ results' = ListAppend(results,
       [task |-> wtask[w], status |-> wpend[w].status])
  /\ lock' = 0
  /\ wpc' = [wpc EXCEPT ![w] = wpend[w].cont]
  /\ wreq' = [wreq EXCEPT ![w] = IF wpend[w].cont = "build" THEN 2 ELSE @]
  /\ wresp' = [wresp EXCEPT ![w] = NoResp]
  /\ wpend' = [wpend EXCEPT ![w] = NoPend]
  /\ UNCHANGED <<cfgVars, queue, unfinished, progress, mainVars, wtask,
                 histVars, sw, fn>>

\* self.progress.update(1).  On the normal path SOAP then sleeps when
\* self.delay > 0; the except branch of the SOAP workers does not sleep.
ProgressUpdate(w) ==
  /\ wpc[w] \in {"update", "update_fail"}
  /\ progress' = progress + 1
  /\ wpc' = [wpc EXCEPT ![w] =
       IF wpc[w] = "update" /\ dialect \in SoapDialects /\ delay > 0
       THEN "sleep" ELSE "task_done"]
  /\ UNCHANGED <<cfgVars, queue, unfinished, results, lock, mainVars, wtask,
                 wresp, wpend, wreq, histVars, sw, fn>>

\* self.queue.task_done() on the normal path, back to the loop head.
TaskDone(w) ==
  /\ wpc[w] = "task_done"
  /\ unfinished' = unfinished - 1
  /\ wpc' = [wpc EXCEPT ![w] = "loop"]
  /\ wtask' = [wtask EXCEPT ![w] = 0]
  /\ wreq' = [wreq EXCEPT ![w] = 0]
  /\ UNCHANGED <<cfgVars, queue, results, lock, progress, mainVars, wresp,
                 wpend, histVars, sw, fn>>

\* REST: the exception of prepare_request ends the thread, task_done not
\* being called.
FinallyRaiseNoTaskDone(w) ==
  /\ wpc[w] = "finally_raise"
  /\ wpc' = [wpc EXCEPT ![w] = "dead"]
  /\ wtask' = [wtask EXCEPT ![w] = 0]
  /\ UNCHANGED <<cfgVars, sharedVars, mainVars, wresp, wpend, wreq, histVars,
                 sw, fn>>

\* REST: finally: self.queue.task_done() while the exception of
\* prepare_request propagates; the thread ends.
FinallyRaise(w) ==
  /\ wpc[w] = "finally_raise"
  /\ unfinished' = unfinished - 1
  /\ wpc' = [wpc EXCEPT ![w] = "dead"]
  /\ wtask' = [wtask EXCEPT ![w] = 0]
  /\ UNCHANGED <<cfgVars, queue, results, lock, progress, mainVars, wresp,
                 wpend, wreq, histVars, sw, fn>>

WorkerStep(w) ==
  \/ WorkerEntryTypeError(w)
  \/ WorkerEntry(w)
  \/ RestCheckEmpty(w)
  \/ RestGet(w)
  \/ SoapGet(w)
  \/ SoapGetEmpty(w)
  \/ BuildOk(w)
  \/ BuildRaise(w)
  \/ SleepDone(w)
  \/ SendReturn(w)
  \/ SendRaise(w)
  \/ RestRecord(w)
  \/ RestExcept(w)
  \/ Acquire(w)
  \/ LockedAppend(w)
  \/ ProgressUpdate(w)
  \/ TaskDone(w)
  \/ FinallyRaise(w)

Next == MainStep \/ \E w \in Workers : WorkerStep(w)

Spec == Init /\ [][Next]_vars

(***************************************************************************)
(* Schema documents.  A $ref string is its prefix followed by a schema     *)
(* name; a schema is a JSON object with the keys "$ref", "type", "items"   *)
(* and "properties", an absent key being the empty value.                  *)
(***************************************************************************)
SchemaNames == 1..NumSchemas
ComponentsPrefix == "#/components/schemas/"
NoRef == [prefix |-> "", name |-> 0]
CompRef(i) == [prefix |-> ComponentsPrefix, name |-> i]
\* A reference into another container; name 0 is declared by no document.
ForeignRef == [prefix |-> "#/definitions/", name |-> 1]
RefPool == {CompRef(i) : i \in 0..NumSchemas} \cup {ForeignRef}

EmptySchema == [ref |-> NoRef, type |-> "", items |-> <<>>, props |-> <<>>]
StringSchema == [EmptySchema EXCEPT !.type = "string"]
RefSchema(r) == [EmptySchema EXCEPT !.ref = r]
ArraySchema(e) == [EmptySchema EXCEPT !.type = "array", !.items = <<e>>]
ObjectSchema(ps) == [EmptySchema EXCEPT !.type = "object", !.props = ps]
Prop(n, e) == [name |-> n, schema |-> e]

ElemSchemas == {StringSchema} \cup {RefSchema(r) : r \in RefPool}
\* The second property of an object is a string or a reference to a
\* declared schema.
SiblingSchemas == {StringSchema} \cup {RefSchema(CompRef(i)) : i \in SchemaNames}
\* Objects that declare three, four and five properties.
WideObjects ==
  {ObjectSchema(<<Prop("self", e), Prop("other", StringSchema),
                  Prop("third", StringSchema)>> \o more) :
     e \in {StringSchema, RefSchema(CompRef(1))},
     more \in {<<>>,
               <<Prop("fourth", StringSchema)>>,
               <<Prop("fourth", RefSchema(CompRef(1))),
                 Prop("fifth", StringSchema)>>}}
SchemaShapes ==
  ElemSchemas
  \cup {ArraySchema(e) : e \in ElemSchemas}
  \cup {ObjectSchema(<<Prop("self", e)>>) : e \in ElemSchemas}
  \cup {ObjectSchema(<<Prop("self", e), Prop("other", f)>>) :
          e \in ElemSchemas, f \in SiblingSchemas}
  \cup WideObjects

\* The schema the top-level call is given: a reference to the first schema.
TopSchema == RefSchema(CompRef(1))

StrVal(t) == [k |-> "str", s |-> t, kids |-> <<>>]
ListVal(v) == [k |-> "list", s |-> "", kids |-> <<[name |-> "", val |-> v]>>]
MapVal(kvs) == [k |-> "map", s |-> "", kids |-> kvs]

(***************************************************************************)
(* OpenAPI3Fuzzer.mock_schema, one activation record per call.             *)
(***************************************************************************)
PropertyCap == 3

HasRef(schema) == schema.ref # NoRef

\* resolve_schema_ref: a "#/components/schemas/" reference is looked up in
\* self.schemas ({} when the name is absent); any other schema comes back
\* as it is.
ResolveSchemaRef(schema) ==
  IF HasRef(schema) /\ schema.ref.prefix = ComponentsPrefix
  THEN IF schema.ref.name \in DOMAIN schemas
       THEN schemas[schema.ref.name]
       ELSE EmptySchema
  ELSE schema

\* if ref in visited_refs
RefSeenNever(ref, visited) == FALSE
RefSeen(ref, visited) == ref \in visited

\* schema.get("type", "object")
SchemaType(schema) == IF schema.type = "" THEN "object" ELSE schema.type

\* items = schema.get("items", {}); if items:
ItemsGiven(schema) == schema.items # <<>> /\ schema.items[1] # EmptySchema

\* property_items = list(properties.items()), without the slice
PropertyItemsUncapped(schema) == schema.props
\* property_items = list(properties.items())[:3]
PropertyItems(schema) ==
  SubSeq(schema.props, 1,
         IF Len(schema.props) < PropertyCap THEN Len(schema.props) ELSE PropertyCap)

\* The schema is expanded by recursion into its items or its properties.
Recurses(schema) ==
  \/ SchemaType(schema) = "array" /\ ItemsGiven(schema)
  \/ SchemaType(schema) = "object" /\ schema.props # <<>>

\* What mock_schema returns for a schema it does not recurse into:
\* generate_test_value for the scalar types, ["test"] for an array without
\* items, test_values["object"] for an object without properties.
LeafValue(schema) ==
  CASE SchemaType(schema) = "string" -> StrVal("test")
    [] SchemaType(schema) = "array" -> ListVal(StrVal("test"))
    [] SchemaType(schema) = "object" ->
         MapVal(<<[name |-> "key", val |-> StrVal("value")]>>)
    [] OTHER -> StrVal("test")

Frame(schema) == [schema |-> schema, stage |-> "enter", idx |-> 0, acc |-> <<>>]
Top == stack[Len(stack)]
Popped == SubSeq(stack, 1, Len(stack) - 1)
Waiting(stage) == [stack EXCEPT ![Len(stack)].stage = stage]

\* return "<circular-ref>"
CircularRefAsEmptyMap == MapVal(<<>>)
CircularRef == StrVal("<circular-ref>")

\* mock_schema meets a $ref that is in visited_refs: return "<circular-ref>"
MockSchemaCircular ==
  /\ stack # <<>>
  /\ Top.stage = "enter"
  /\ HasRef(Top.schema)
  /\ RefSeen(Top.schema.ref, visited_refs)
  /\ stack' = Popped
  /\ ret' = CircularRef
  /\ UNCHANGED <<fn, dispatchVars, schemas, visited_refs>>

\* mock_schema meets a new $ref: add it, resolve it, recurse
MockSchemaFollowRef ==
  /\ stack # <<>>
  /\ Top.stage = "enter"
  /\ HasRef(Top.schema)
  /\ ~RefSeen(Top.schema.ref, visited_refs)
  /\ visited_refs' = visited_refs \cup {Top.schema.ref}
  /\ stack' = Append(Waiting("ref"), Frame(ResolveSchemaRef(Top.schema)))
  /\ UNCHANGED <<fn, dispatchVars, schemas, ret>>

\* mock_schema returns a value without recursing
MockSchemaLeaf ==
  /\ stack # <<>>
  /\ Top.stage = "enter"
  /\ ~HasRef(Top.schema)
  /\ ~Recurses(Top.schema)
  /\ stack' = Popped
  /\ ret' = LeafValue(Top.schema)
  /\ UNCHANGED <<fn, dispatchVars, schemas, visited_refs>>

\* array: item_value = self.mock_schema(items, ...)
MockSchemaArray ==
  /\ stack # <<>>
  /\ Top.stage = "enter"
  /\ ~HasRef(Top.schema)
  /\ SchemaType(Top.schema) = "array"
  /\ ItemsGiven(Top.schema)
  /\ stack' = Append(Waiting("array"), Frame(Top.schema.items[1]))
  /\ UNCHANGED <<fn, dispatchVars, schemas, visited_refs, ret>>

\* object: the first pass of the loop over property_items
MockSchemaObject ==
  /\ stack # <<>>
  /\ Top.stage = "enter"
  /\ ~HasRef(Top.schema)
  /\ SchemaType(Top.schema) = "object"
  /\ Top.schema.props # <<>>
  /\ stack' = Append([stack EXCEPT ![Len(stack)].stage = "object",
                                   ![Len(stack)].idx = 1],
                     Frame(PropertyItems(Top.schema)[1].schema))
  /\ UNCHANGED <<fn, dispatchVars, schemas, visited_refs, ret>>

\* the recursive call under a $ref returned, the ref staying in the set
ReturnToRefKeepVisited ==
  /\ stack # <<>>
  /\ Top.stage = "ref"
  /\ stack' = Popped
  /\ UNCHANGED <<fn, dispatchVars, schemas, visited_refs, ret>>

\* the recursive call under a $ref returned: visited_refs.remove(ref)
ReturnToRef ==
  /\ stack # <<>>
  /\ Top.stage = "ref"
  /\ visited_refs' = visited_refs \ {Top.schema.ref}
  /\ stack' = Popped
  /\ UNCHANGED <<fn, dispatchVars, schemas, ret>>

\* the recursive call on items returned: return [item_value]
ReturnToArray ==
  /\ stack # <<>>
  /\ Top.stage = "array"
  /\ ret' = ListVal(ret)
  /\ stack' = Popped
  /\ UNCHANGED <<fn, dispatchVars, schemas, visited_refs>>

\* the recursive call on a property returned: store it, then go on with the
\* next property or return result
ReturnToObject ==
  /\ stack # <<>>
  /\ Top.stage = "object"
  /\ LET items == PropertyItems(Top.schema)
         acc == Append(Top.acc, [name |-> items[Top.idx].name, val |-> ret])
     IN  IF Top.idx < Len(items)
         THEN /\ stack' = Append([stack EXCEPT ![Len(stack)].idx = Top.idx + 1,
                                               ![Len(stack)].acc = acc],
                                 Frame(items[Top.idx + 1].schema))
              /\ ret' = ret
         ELSE /\ stack' = Popped
              /\ ret' = MapVal(acc)
  /\ UNCHANGED <<fn, dispatchVars, schemas, visited_refs>>

\* A fuzzer at rest: no endpoint, no thread.
DispatchQuiet ==
  /\ InitDispatch
  /\ dialect = "openapi3"
  /\ threads = 1
  /\ nEndpoints = 0

\* self.mock_schema(schema) is called on a document: visited_refs = set()
SchemaInit ==
  /\ DispatchQuiet
  /\ HelpersIdle
  /\ schemas \in [SchemaNames -> SchemaShapes]
  /\ stack = <<Frame(TopSchema)>>
  /\ visited_refs = {}
  /\ ret = NoValue

SchemaNext ==
  \/ MockSchemaCircular
  \/ MockSchemaFollowRef
  \/ MockSchemaLeaf
  \/ MockSchemaArray
  \/ MockSchemaObject
  \/ ReturnToRef
  \/ ReturnToArray
  \/ ReturnToObject

SchemaSpec == SchemaInit /\ [][SchemaNext]_vars

(***************************************************************************)
(* Swagger2Fuzzer.mock_schema, one activation record per call.  The        *)
(* variable schemas holds self.definitions, and visited_refs holds what    *)
(* this walker puts into its set: property names.                          *)
(***************************************************************************)
\* The depth at which the interpreter raises RecursionError
\* (sys.getrecursionlimit() frames; scaled down).
RecursionLimit == 8

DefRef(i) == [prefix |-> "#/definitions/", name |-> i]

\* What the call raises when the recursion is too deep.
RecursionError == [k |-> "RecursionError", s |-> "", kids |-> <<>>]

\* resolve_schema_ref: a "#/definitions/" reference is replaced by the
\* definition of that name ({} when absent), one level only; any other
\* schema comes back as it is.
S2ResolveSchemaRef(schema) ==
  IF HasRef(schema) /\ schema.ref.prefix = "#/definitions/"
  THEN IF schema.ref.name \in DOMAIN schemas
       THEN schemas[schema.ref.name]
       ELSE EmptySchema
  ELSE schema

\* schema = self.resolve_schema_ref(schema), of the innermost activation
S2Resolved == S2ResolveSchemaRef(Top.schema)

\* schema.get("type") == "object" or "properties" in schema
S2IsObject(schema) == schema.type = "object" \/ schema.props # <<>>

\* The next pass of `for prop_name, prop_schema in properties.items()` after
\* position i whose name passes `if prop_name not in visited_refs`; 0 when
\* the loop is over.
S2NextProp(schema, i, visited) ==
  LET open == {j \in (i + 1)..Len(schema.props) :
                 schema.props[j].name \notin visited}
  IN  IF open = {} THEN 0 ELSE CHOOSE j \in open : \A l \in open : j <= l

\* A further call would exceed the recursion limit.
S2TooDeep == Len(stack) >= RecursionLimit

\* The call that cannot be made: RecursionError propagates through every
\* activation.
S2RaiseRecursionError ==
  /\ stack # <<>>
  /\ Top.stage = "enter"
  /\ S2TooDeep
  /\ \/ S2Resolved.type = "array"
     \/ S2IsObject(S2Resolved) /\ S2NextProp(S2Resolved, 0, visited_refs) # 0
  /\ stack' = <<>>
  /\ ret' = RecursionError
  /\ UNCHANGED <<fn, dispatchVars, schemas, visited_refs>>

\* array: return [self.mock_schema(items, components, visited_refs)]
S2MockSchemaArray ==
  /\ stack # <<>>
  /\ Top.stage = "enter"
  /\ ~S2TooDeep
  /\ S2Resolved.type = "array"
  /\ stack' = Append(Waiting("array"), Frame(IF S2Resolved.items = <<>> THEN EmptySchema
                      ELSE S2Resolved.items[1]))
  /\ UNCHANGED <<fn, dispatchVars, schemas, visited_refs, ret>>

\* object: the first property whose name is not in visited_refs is added to
\* the set and expanded
S2MockSchemaObject ==
  /\ stack # <<>>
  /\ Top.stage = "enter"
  /\ ~S2TooDeep
  /\ S2Resolved.type # "array"
  /\ S2IsObject(S2Resolved)
  /\ LET j == S2NextProp(S2Resolved, 0, visited_refs)
     IN  /\ j # 0
         /\ visited_refs' = visited_refs \cup {S2Resolved.props[j].name}
         /\ stack' = Append([stack EXCEPT ![Len(stack)].stage = "object",
                                          ![Len(stack)].idx = j],
                            Frame(S2Resolved.props[j].schema))
  /\ UNCHANGED <<fn, dispatchVars, schemas, ret>>

\* object without a property to expand: return {}
S2MockSchemaEmptyObject ==
  /\ stack # <<>>
  /\ Top.stage = "enter"
  /\ S2Resolved.type # "array"
  /\ S2IsObject(S2Resolved)
  /\ S2NextProp(S2Resolved, 0, visited_refs) = 0
  /\ stack' = Popped
  /\ ret' = MapVal(<<>>)
  /\ UNCHANGED <<fn, dispatchVars, schemas, visited_refs>>

\* basic type: generate_test_value(schema.get("type", "string"), ...)
S2MockSchemaLeaf ==
  /\ stack # <<>>
  /\ Top.stage = "enter"
  /\ S2Resolved.type # "array"
  /\ ~S2IsObject(S2Resolved)
  /\ stack' = Popped
  /\ ret' = StrVal("test_string")
  /\ UNCHANGED <<fn, dispatchVars, schemas, visited_refs>>

\* the recursive call on items returned: return [value]
S2ReturnToArray ==
  /\ stack # <<>>
  /\ Top.stage = "array"
  /\ ret' = ListVal(ret)
  /\ stack' = Popped
  /\ UNCHANGED <<fn, dispatchVars, schemas, visited_refs>>

\* the recursive call on a property returned: store it,
\* visited_refs.remove(prop_name), then go on with the next property that is
\* not in visited_refs or return result
S2ReturnToObject ==
  /\ stack # <<>>
  /\ Top.stage = "object"
  /\ LET name == S2Resolved.props[Top.idx].name
         acc == Append(Top.acc, [name |-> name, val |-> ret])
         left == visited_refs \ {name}
         j == S2NextProp(S2Resolved, Top.idx, left)
     IN  IF j # 0
         THEN /\ visited_refs' = left \cup {S2Resolved.props[j].name}
              /\ stack' = Append([stack EXCEPT ![Len(stack)].idx = j,
                                               ![Len(stack)].acc = acc],
                                 Frame(S2Resolved.props[j].schema))
              /\ ret' = ret
         ELSE /\ visited_refs' = left
              /\ stack' = Popped
              /\ ret' = MapVal(acc)
  /\ UNCHANGED <<fn, dispatchVars, schemas>>

\* self.mock_schema(schema) is called on a Swagger 2.0 document.
Swagger2Init ==
  /\ InitDispatch
  /\ dialect = "swagger2"
  /\ threads = 1
  /\ nEndpoints = 0
  /\ HelpersIdle
  /\ LET \* Elements of a Swagger 2.0 definition: a string, a reference
         \* to a definition (name 0 is declared by none), or a reference
         \* elsewhere.
         elems == {StringSchema}
                    \cup {RefSchema(DefRef(i)) : i \in 0..NumSchemas}
                    \cup {RefSchema(CompRef(1))}
         siblings == {StringSchema}
                       \cup {RefSchema(DefRef(i)) : i \in SchemaNames}
         shapes ==
           elems
           \cup {ArraySchema(e) : e \in elems}
           \cup {ObjectSchema(<<Prop("self", e)>>) : e \in elems}
           \cup {ObjectSchema(<<Prop("self", e), Prop("other", f)>>) :
                   e \in elems, f \in siblings}
     IN  schemas \in [SchemaNames -> shapes]
  /\ stack = <<Frame(RefSchema(DefRef(1)))>>
  /\ visited_refs = {}
  /\ ret = NoValue

Swagger2Next ==
  \/ S2RaiseRecursionError
  \/ S2MockSchemaArray
  \/ S2MockSchemaObject
  \/ S2MockSchemaEmptyObject
  \/ S2MockSchemaLeaf
  \/ S2ReturnToArray
  \/ S2ReturnToObject

Swagger2Spec == Swagger2Init /\ [][Swagger2Next]_vars

(***************************************************************************)
(* generate_test_value of the two REST dialects.  A value is a record      *)
(* [k, s, kids]: its Python kind, the text of a scalar, the members of a   *)
(* list or mapping.                                                        *)
(***************************************************************************)
IntVal(n) == [k |-> "int", s |-> Str(n), kids |-> <<>>]
NumVal(t) == [k |-> "float", s |-> t, kids |-> <<>>]
BoolVal(t) == [k |-> "bool", s |-> t, kids |-> <<>>]
BytesVal(t) == [k |-> "bytes", s |-> t, kids |-> <<>>]
ListOf(vs) ==
  [k |-> "list", s |-> "", kids |-> [i \in DOMAIN vs |-> [name |-> "", val |-> vs[i]]]]

\* str(value) of a scalar
PyStr(v) == StrVal(v.s)

\* BaseFuzzer.test_values, which OpenAPI3Fuzzer uses as it is.
BaseTestValues ==
  "string" :> StrVal("test")
  @@ "integer" :> IntVal(1)
  @@ "number" :> NumVal("1.23")
  @@ "boolean" :> BoolVal("True")
  @@ "array" :> ListOf(<<StrVal("item")>>)
  @@ "object" :> MapVal(<<[name |-> "key", val |-> StrVal("value")]>>)
  @@ "date" :> StrVal("2023-01-01")
  @@ "date-time" :> StrVal("2023-01-01T00:00:00Z")
  @@ "uuid" :> StrVal("123e4567-e89b-12d3-a456-426614174000")
  @@ "email" :> StrVal("test@example.com")
  @@ "password" :> StrVal("test_password")
  @@ "uri" :> StrVal("https://example.com")
  @@ "file" :> StrVal("test_file.txt")
  @@ "int32" :> IntVal(123)
  @@ "int64" :> IntVal(123456789)
  @@ "long" :> IntVal(123456789)
  @@ "double" :> NumVal("123.45")
  @@ "float" :> NumVal("123.45")
  @@ "ipv4" :> StrVal("192.168.1.1")
  @@ "ipv6" :> StrVal("2001:db8::1")
  @@ "byte" :> StrVal("dGVzdA==")
  @@ "binary" :> BytesVal("test_binary_data")
  @@ "octet-stream" :> BytesVal("test_octet_stream")
  @@ "pdf" :> BytesVal("%PDF-1.4 Fake PDF %%EOF")
  @@ "zip" :> BytesVal("PK 03 04 14 00 00 00 08 00")
  @@ "plain-text" :> StrVal("test plain text content")
  @@ "xml" :> StrVal("<test>content</test>")

\* Swagger2Fuzzer.test_values, which replaces the table of the base class.
Swagger2TestValues ==
  "string" :> StrVal("test_string")
  @@ "integer" :> IntVal(123)
  @@ "int32" :> IntVal(123)
  @@ "int64" :> IntVal(123456789)
  @@ "long" :> IntVal(123456789)
  @@ "number" :> NumVal("123.45")
  @@ "double" :> NumVal("123.45")
  @@ "float" :> NumVal("123.45")
  @@ "boolean" :> BoolVal("True")
  @@ "array" :> ListOf(<<StrVal("item1"), StrVal("item2")>>)
  @@ "object" :> MapVal(<<[name |-> "key", val |-> StrVal("value")]>>)
  @@ "file" :> StrVal("test_file.txt")
  @@ "date" :> StrVal("2023-01-01")
  @@ "date-time" :> StrVal("2023-01-01T12:00:00Z")
  @@ "email" :> StrVal("test@example.com")
  @@ "password" :> StrVal("test_password")
  @@ "uuid" :> StrVal("123e4567-e89b-12d3-a456-426614174000")
  @@ "uri" :> StrVal("https://example.com")
  @@ "ipv4" :> StrVal("192.168.1.1")
  @@ "ipv6" :> StrVal("2001:db8::1")

\* self.test_values of a REST fuzzer
TestValues(d) == IF d = "swagger2" THEN Swagger2TestValues ELSE BaseTestValues

\* self.test_values.get(key, default)
TestValueOr(d, key, default) ==
  IF key \in DOMAIN TestValues(d) THEN TestValues(d)[key] ELSE default

\* if enum: (None and [] are both falsy)
EnumGivenNever(enum) == FALSE
EnumGiven(enum) == enum # <<>>

\* random.choice(enum): any member
RandomChoice(enum) == {enum[i] : i \in DOMAIN enum}

\* format_mapping of OpenAPI3Fuzzer.generate_test_value
OpenAPI3FormatMapping ==
  "date" :> BaseTestValues["date"]
  @@ "date-time" :> BaseTestValues["date-time"]
  @@ "uuid" :> BaseTestValues["uuid"]
  @@ "email" :> BaseTestValues["email"]
  @@ "uri" :> BaseTestValues["uri"]
  @@ "url" :> BaseTestValues["uri"]
  @@ "password" :> BaseTestValues["password"]
  @@ "byte" :> BaseTestValues["byte"]
  @@ "binary" :> BaseTestValues["binary"]
  @@ "int32" :> PyStr(BaseTestValues["int32"])
  @@ "int64" :> PyStr(BaseTestValues["int64"])
  @@ "double" :> PyStr(BaseTestValues["double"])

\* generate_test_value below the enum and array branches: the table lookups
\* by type and format ("" stands for an absent format).
TableValue(d, type, format) ==
  LET tv == TestValues(d)
  IN  CASE type = "file" -> tv["file"]
        [] type \in {"integer", "int"} ->
             IF format = "int32" THEN tv["int32"]
             ELSE IF format = "int64" THEN tv["int64"]
             ELSE tv["integer"]
        [] type = "long" /\ d = "swagger2" -> tv["long"]
        [] type = "number" ->
             IF format = "double" THEN tv["double"]
             ELSE IF format = "float" THEN tv["float"]
             ELSE tv["number"]
        [] type = "string" ->
             IF d = "swagger2"
             THEN IF format \in {"date", "date-time", "email", "password",
                                 "uuid", "uri", "ipv4", "ipv6"}
                  THEN tv[format] ELSE tv["string"]
             ELSE IF format \in DOMAIN OpenAPI3FormatMapping
                  THEN OpenAPI3FormatMapping[format] ELSE tv["string"]
        [] type = "boolean" -> tv["boolean"]
        [] type = "object" -> tv["object"]
        [] OTHER ->
             IF d = "swagger2" THEN tv["string"]
             ELSE TestValueOr(d, type, StrVal("test"))

\* What one call generate_test_value(type, format, items, enum) can return.
\* items is <<>> when absent, else one record [type, format, enum]; the
\* inner call for the element is made without items.
GenerateTestValue(d, type, format, items, enum) ==
  IF EnumGiven(enum) THEN RandomChoice(enum)
  ELSE IF type = "array"
  THEN IF items # <<>>
       THEN {ListOf(<<v>>) :
               v \in IF EnumGiven(items[1].enum)
                     THEN RandomChoice(items[1].enum)
                     ELSE IF items[1].type = "array"
                     THEN {TestValues(d)["array"]}
                     ELSE {TableValue(d, items[1].type, items[1].format)}}
       ELSE {TestValues(d)["array"]}
  ELSE {TableValue(d, type, format)}

\* A call generate_test_value(param_type, param_format, items, enum) starts.
GenInit ==
  /\ InitDispatch
  /\ dialect \in RestDialects
  /\ threads = 1
  /\ nEndpoints = 0
  /\ WalkerIdle
  /\ paths = <<>>
  /\ endpoints = <<>>
  /\ cursor = NoCall
  /\ build = NoCall
  /\ LET types == {"string", "integer", "number", "boolean", "array",
                   "object", "file", "long", "uuid"}
         formats == {"", "int32", "double", "date", "binary", "url", "ipv4"}
         members == {StrVal("red"), IntVal(7)}
         enums == {<<>>} \cup {<<a>> : a \in members}
                    \cup {<<a, b>> : a \in members, b \in members}
         itemss ==
           {<<>>, <<[type |-> "integer", format |-> "", enum |-> <<>>]>>,
            <<[type |-> "string", format |-> "", enum |-> <<StrVal("red")>>]>>,
            <<[type |-> "array", format |-> "", enum |-> <<>>]>>}
     IN  \E t \in types, f \in formats, e \in enums, i \in itemss :
           gen = [pc |-> "call", type |-> t, format |-> f, items |-> i,
                  enum |-> e, out |-> NoValue]

GenReturn(v) ==
  /\ gen' = [gen EXCEPT !.pc = "done", !.out = v]
  /\ UNCHANGED <<dispatchVars, sw, paths, endpoints, cursor, build>>

\* if enum: return random.choice(enum)
GenEnumChoice ==
  /\ gen.pc = "call"
  /\ EnumGiven(gen.enum)
  /\ \E v \in GenerateTestValue(dialect, gen.type, gen.format, gen.items, gen.enum) :
       GenReturn(v)

\* if param_type == "array": the element value wrapped in a list, or the
\* table's array
GenArray ==
  /\ gen.pc = "call"
  /\ ~EnumGiven(gen.enum)
  /\ gen.type = "array"
  /\ \E v \in GenerateTestValue(dialect, gen.type, gen.format, gen.items, gen.enum) :
       GenReturn(v)

\* every other type: the table lookups
GenTable ==
  /\ gen.pc = "call"
  /\ ~EnumGiven(gen.enum)
  /\ gen.type # "array"
  /\ \E v \in GenerateTestValue(dialect, gen.type, gen.format, gen.items, gen.enum) :
       GenReturn(v)

GenNext == GenEnumChoice \/ GenArray \/ GenTable

ValueSpec == GenInit /\ [][GenNext]_vars

(***************************************************************************)
(* extract_endpoints of the two REST dialects.  A path item is the         *)
(* sequence of its keys in document order, a key standing for the          *)
(* operation object stored under it.                                       *)
(***************************************************************************)
MaxPaths == 2
MaxKeys == 2

\* method.upper()
Upper(key) ==
  CASE key = "get" -> "GET"
    [] key = "Head" -> "HEAD"
    [] key = "trace" -> "TRACE"
    [] key = "parameters" -> "PARAMETERS"

\* self.supported_methods; the list literal in Swagger2Fuzzer
SupportedMethodsNoHead == {"GET", "POST", "PUT", "DELETE", "PATCH", "OPTIONS"}
SupportedMethods == {"GET", "POST", "PUT", "DELETE", "PATCH", "HEAD", "OPTIONS"}

\* extract_endpoints() is called on a parsed document.
ExtractInit ==
  /\ InitDispatch
  /\ dialect \in RestDialects
  /\ threads = 1
  /\ nEndpoints = 0
  /\ WalkerIdle
  /\ gen = NoCall
  /\ build = NoCall
  /\ LET \* Keys a path item can have: verbs in lower and mixed case, a
         \* verb the fuzzers do not send, and a key that is no verb.  A
         \* dict has each key once.
         keys == {"get", "Head", "trace", "parameters"}
         items ==
           UNION {{ks \in [1..n -> keys] :
                     \A i, j \in 1..n : i # j => ks[i] # ks[j]} :
                    n \in 0..MaxKeys}
     IN  paths \in UNION {[1..n -> items] : n \in 0..MaxPaths}
  /\ endpoints = <<>>
  /\ cursor = [pc |-> "loop", path |-> 1, key |-> 1]

\* for path, methods in paths.items(): the inner loop over one path item is
\* over (or the item is empty), go to the next path
ExtractNextPath ==
  /\ cursor.pc = "loop"
  /\ cursor.path <= Len(paths)
  /\ cursor.key > Len(paths[cursor.path])
  /\ cursor' = [cursor EXCEPT !.path = @ + 1, !.key = 1]
  /\ UNCHANGED <<dispatchVars, sw, gen, paths, endpoints, build>>

\* if method.upper() in supported: self.endpoints.append((method.upper(),
\* path, details))
ExtractAppend ==
  /\ cursor.pc = "loop"
  /\ cursor.path <= Len(paths)
  /\ cursor.key <= Len(paths[cursor.path])
  /\ LET key == paths[cursor.path][cursor.key]
     IN  /\ Upper(key) \in SupportedMethods
         /\ endpoints' = Append(endpoints,
              [method |-> Upper(key), path |-> cursor.path, details |-> key])
  /\ cursor' = [cursor EXCEPT !.key = @ + 1]
  /\ UNCHANGED <<dispatchVars, sw, gen, paths, build>>

\* the key is not a supported method: nothing is appended
ExtractSkip ==
  /\ cursor.pc = "loop"
  /\ cursor.path <= Len(paths)
  /\ cursor.key <= Len(paths[cursor.path])
  /\ Upper(paths[cursor.path][cursor.key]) \notin SupportedMethods
  /\ cursor' = [cursor EXCEPT !.key = @ + 1]
  /\ UNCHANGED <<dispatchVars, sw, gen, paths, endpoints, build>>

\* the outer loop is over: extract_endpoints returns
ExtractReturn ==
  /\ cursor.pc = "loop"
  /\ cursor.path > Len(paths)
  /\ cursor' = [cursor EXCEPT !.pc = "done"]
  /\ UNCHANGED <<dispatchVars, sw, gen, paths, endpoints, build>>

ExtractNext == ExtractNextPath \/ ExtractAppend \/ ExtractSkip \/ ExtractReturn

ExtractSpec == ExtractInit /\ [][ExtractNext]_vars

(***************************************************************************)
(* WSDLFuzzer.extract_endpoints over the tables parse_wsdl fills.  A        *)
(* reference such as "tns:Binding" is the sequence of its parts between    *)
(* the colons; the tables are keyed by plain names.                        *)
(***************************************************************************)
MaxPorts == 2

\* if ':' in name: name = name.split(':')[-1]
StripPrefixFirst(ref) == ref[1]
StripPrefix(ref) == ref[Len(ref)]

\* extract_endpoints() is called after parse_wsdl(): one or two services
\* with up to MaxPorts ports each, every port with a binding attribute and
\* every binding with a type attribute, with and without a prefix, naming
\* declared and undeclared bindings and port types.
WsdlExtractInit ==
  /\ InitDispatch
  /\ dialect = "wsdl"
  /\ threads = 1
  /\ nEndpoints = 0
  /\ delay = 0
  /\ WalkerIdle
  /\ gen = NoCall
  /\ build = NoCall
  /\ LET bindingRefs == {<<"B1">>, <<"tns", "B1">>, <<"tns", "B2">>, <<"B9">>}
         portLists ==
           UNION {[1..n -> bindingRefs] : n \in 0..MaxPorts}
         services ==
           UNION {[1..n -> portLists] : n \in 1..2}
         bindings ==
           {("B1" :> a) @@ ("B2" :> b) :
              a \in {<<"tns", "PT1">>, <<"PT9">>},
              b \in {<<"PT2">>, <<"tns", "PT9">>}}
         port_types ==
           {("PT1" :> <<"op1", "op2">>) @@ ("PT2" :> ops) :
              ops \in {<<>>, <<"op3">>}}
     IN  paths \in [services : services, bindings : bindings,
                    port_types : port_types]
  /\ endpoints = <<>>
  /\ cursor = [pc |-> "loop", service |-> 1, port |-> 1]

\* for service_name, ports in self.services.items(): the loop over the
\* ports of one service is over, go to the next service
WsdlNextService ==
  /\ cursor.pc = "loop"
  /\ cursor.service <= Len(paths.services)
  /\ cursor.port > Len(paths.services[cursor.service])
  /\ cursor' = [cursor EXCEPT !.service = @ + 1, !.port = 1]
  /\ UNCHANGED <<dispatchVars, sw, gen, paths, endpoints, build>>

\* binding_name in self.bindings and port_type_name in self.port_types:
\* one endpoint is appended for every operation of the port type
WsdlPortResolved ==
  /\ cursor.pc = "loop"
  /\ cursor.service <= Len(paths.services)
  /\ cursor.port <= Len(paths.services[cursor.service])
  /\ LET binding_name ==
           StripPrefix(paths.services[cursor.service][cursor.port])
     IN  /\ binding_name \in DOMAIN paths.bindings
         /\ LET port_type_name == StripPrefix(paths.bindings[binding_name])
            IN  /\ port_type_name \in DOMAIN paths.port_types
                /\ endpoints' =
                     endpoints \o
                       [i \in DOMAIN paths.port_types[port_type_name] |->
                          [service |-> cursor.service, port |-> cursor.port,
                           binding |-> binding_name,
                           portType |-> port_type_name,
                           operation |->
                             paths.port_types[port_type_name][i]]]
  /\ cursor' = [cursor EXCEPT !.port = @ + 1]
  /\ UNCHANGED <<dispatchVars, sw, gen, paths, build>>

\* the binding is declared but its port type is not: nothing is appended
\* and nothing is printed
WsdlPortNoPortType ==
  /\ cursor.pc = "loop"
  /\ cursor.service <= Len(paths.services)
  /\ cursor.port <= Len(paths.services[cursor.service])
  /\ LET binding_name ==
           StripPrefix(paths.services[cursor.service][cursor.port])
     IN  /\ binding_name \in DOMAIN paths.bindings
         /\ StripPrefix(paths.bindings[binding_name])
              \notin DOMAIN paths.port_types
  /\ cursor' = [cursor EXCEPT !.port = @ + 1]
  /\ UNCHANGED <<dispatchVars, sw, gen, paths, endpoints, build>>

\* else: the binding is not declared, a line is printed
WsdlPortNoBinding ==
  /\ cursor.pc = "loop"
  /\ cursor.service <= Len(paths.services)
  /\ cursor.port <= Len(paths.services[cursor.service])
  /\ StripPrefix(paths.services[cursor.service][cursor.port])
       \notin DOMAIN paths.bindings
  /\ cursor' = [cursor EXCEPT !.port = @ + 1]
  /\ UNCHANGED <<dispatchVars, sw, gen, paths, endpoints, build>>

\* the loop over the services is over: extract_endpoints returns
WsdlExtractReturn ==
  /\ cursor.pc = "loop"
  /\ cursor.service > Len(paths.services)
  /\ cursor' = [cursor EXCEPT !.pc = "done"]
  /\ UNCHANGED <<dispatchVars, sw, gen, paths, endpoints, build>>

WsdlExtractNext ==
  \/ WsdlNextService
  \/ WsdlPortResolved
  \/ WsdlPortNoPortType
  \/ WsdlPortNoBinding
  \/ WsdlExtractReturn

WsdlExtractSpec == WsdlExtractInit /\ [][WsdlExtractNext]_vars

(***************************************************************************)
(* prepare_request.  A dict is a function from its keys; None is a value   *)
(* of its own.                                                             *)
(***************************************************************************)
None == [k |-> "None", s |-> "", kids |-> <<>>]
EmptyDict == <<>>

\* d[k] = v
Put(d, k, v) == (k :> v) @@ d

\* d.update(e): the entries of e win
Update(d, e) == e @@ d

\* The dict a sequence of assignments d[name] = val leaves behind: the last
\* assignment to a key wins.
FromPairs(pairs) ==
  [n \in {pairs[i].name : i \in DOMAIN pairs} |->
     pairs[CHOOSE i \in DOMAIN pairs :
             /\ pairs[i].name = n
             /\ \A j \in DOMAIN pairs : pairs[j].name = n => j <= i].val]

\* Joining texts with a separator.
RECURSIVE Join(_, _)
Join(texts, sep) ==
  IF texts = <<>> THEN ""
  ELSE IF Len(texts) = 1 THEN texts[1]
  ELSE texts[1] \o sep \o Join(Tail(texts), sep)

\* isinstance(data, bytes), and the recursive _contains_binary_data over
\* dict values and list items.  (Its string case, a text of more than 100
\* base64 characters, is followed by a conversion that leaves strings as
\* they are.)  json.dumps raises TypeError exactly when this is true.
RECURSIVE ContainsBinaryData(_)
ContainsBinaryData(data) ==
  \/ data.k = "bytes"
  \/ \E i \in DOMAIN data.kids : ContainsBinaryData(data.kids[i].val)

\* _convert_binary_to_string: base64.b64encode(data).decode('utf-8') for
\* bytes, a text written here as the bytes it encodes inside b64(...)
RECURSIVE ConvertBinaryToString(_)
ConvertBinaryToString(data) ==
  IF data.k = "bytes" THEN StrVal("b64(" \o data.s \o ")")
  ELSE [data EXCEPT !.kids =
          [i \in DOMAIN data.kids |->
             [name |-> data.kids[i].name,
              val |-> ConvertBinaryToString(data.kids[i].val)]]]

\* The text json.dumps writes for a value without bytes.
RECURSIVE JsonText(_)
JsonText(data) ==
  CASE data.k = "str" -> "\"" \o data.s \o "\""
    [] data.k = "bool" -> IF data.s = "True" THEN "true" ELSE "false"
    [] data.k = "None" -> "null"
    [] data.k = "list" ->
         "[" \o Join([i \in DOMAIN data.kids |-> JsonText(data.kids[i].val)], ", ")
             \o "]"
    [] data.k = "map" ->
         "{" \o Join([i \in DOMAIN data.kids |->
                        "\"" \o data.kids[i].name \o "\": "
                             \o JsonText(data.kids[i].val)], ", ")
             \o "}"
    [] OTHER -> data.s

\* str(value): the text itself for a string, repr-style for anything else
\* and for the members of containers
RECURSIVE PyRepr(_)
PyRepr(v) ==
  CASE v.k = "str" -> "'" \o v.s \o "'"
    [] v.k = "bytes" -> "b'" \o v.s \o "'"
    [] v.k = "list" ->
         "[" \o Join([i \in DOMAIN v.kids |-> PyRepr(v.kids[i].val)], ", ") \o "]"
    [] v.k = "map" ->
         "{" \o Join([i \in DOMAIN v.kids |->
                        "'" \o v.kids[i].name \o "': " \o PyRepr(v.kids[i].val)],
                     ", ") \o "}"
    [] OTHER -> v.s

\* str(value) of any value
StrOf(v) == IF v.k = "str" THEN v.s ELSE PyRepr(v)

\* urlencode(mapping) for a mapping whose values need no escaping
UrlEncode(data) ==
  StrVal(Join([i \in DOMAIN data.kids |->
                 data.kids[i].name \o "=" \o
                   (IF data.kids[i].val.k \in {"str", "bytes"}
                    THEN data.kids[i].val.s ELSE PyRepr(data.kids[i].val))],
              "&"))

\* The files dict built from the items of a mapping: a bytes value becomes
\* a file part "<key>.bin", anything else a plain form field with its
\* str().  For a value that is no mapping the dict stays empty.
FilesOf(data) ==
  [k |-> "dict", s |-> "",
   kids |->
     FromPairs([i \in DOMAIN (IF data.k = "map" THEN data.kids ELSE <<>>) |->
       [name |-> data.kids[i].name,
        val |-> IF data.kids[i].val.k = "bytes"
                THEN [filename |-> data.kids[i].name \o ".bin",
                      data |-> data.kids[i].val,
                      type |-> "application/octet-stream"]
                ELSE [filename |-> "",
                      data |-> StrVal(IF data.kids[i].val.k = "str"
                                      THEN data.kids[i].val.s
                                      ELSE PyRepr(data.kids[i].val)),
                      type |-> ""]]])]

(***************************************************************************)
(* The endpoints prepare_request is called with.                           *)
(***************************************************************************)
MaxParams == 2

\* The REST fuzzers: the two of core/ and the single-file SwaggerFuzzer of
\* APIFuzz.py
RestBuilders == RestDialects \cup {"SwaggerFuzzer"}

\* TEST_VALUES of APIFuzz.py
SwaggerFuzzerTestValues ==
  "string" :> StrVal("test")
  @@ "integer" :> IntVal(1)
  @@ "number" :> NumVal("1.23")
  @@ "boolean" :> BoolVal("True")
  @@ "array" :> ListOf(<<StrVal("item")>>)
  @@ "object" :> MapVal(<<[name |-> "key", val |-> StrVal("value")]>>)
  @@ "date" :> StrVal("2023-01-01")
  @@ "date-time" :> StrVal("2023-01-01T00:00:00Z")
  @@ "uuid" :> StrVal("123e4567-e89b-12d3-a456-426614174000")

\* What mock_schema returns for {"type": t} with t "string" or "integer"
MockScalar(by, t) ==
  IF by = "swagger2" THEN Swagger2TestValues[t]
  ELSE IF by = "openapi3" THEN BaseTestValues[t]
  ELSE SwaggerFuzzerTestValues[t]

\* What mock_schema returns for {"type": "string", "format": "binary"}:
\* bytes in OpenAPI3Fuzzer and in SwaggerFuzzer, the plain string value in
\* Swagger2Fuzzer, whose table holds no bytes.
MockBinary(by) ==
  IF by = "openapi3" THEN OpenAPI3FormatMapping["binary"]
  ELSE IF by = "SwaggerFuzzer" THEN BytesVal("fake-binary-data")
  ELSE MockScalar(by, "string")

ObjectOf(name, v) == MapVal(<<[name |-> name, val |-> v]>>)

\* The declared parameters: name, location, required flag, declared type,
\* where the document declares that type ("schema": under the parameter's
\* schema key; "param": directly on the parameter, as Swagger 2.0 does for
\* every parameter that is not a body parameter), and for a "body"
\* parameter the value mock_schema returns for its schema.
ParameterPool(by) ==
  << [name |-> "q", in |-> "query", required |-> FALSE, type |-> "string",
      decl |-> "schema", mock |-> None],
     [name |-> "X-Req", in |-> "header", required |-> TRUE,
      type |-> "integer", decl |-> "schema", mock |-> None],
     [name |-> "X-Opt", in |-> "header", required |-> FALSE,
      type |-> "string", decl |-> "schema", mock |-> None],
     [name |-> "payload", in |-> "body", required |-> FALSE,
      type |-> "object", decl |-> "schema",
      mock |-> MapVal(<<[name |-> "f", val |-> MockScalar(by, "string")],
                        [name |-> "q", val |-> MockScalar(by, "integer")]>>)],
     [name |-> "note", in |-> "body", required |-> FALSE, type |-> "string",
      decl |-> "schema", mock |-> MockScalar(by, "string")] >>

\* The path of the endpoint, "/users/{id}", as its parts: a literal text or
\* the name inside a {placeholder}.
UsersIdPath == <<[lit |-> "/users/", name |-> ""], [lit |-> "", name |-> "id"]>>

\* self.base_url
BaseUrl == "http://h"

\* The path parameter an endpoint can declare for {id}: typed integer or
\* array, the type given under schema or, in a Swagger 2.0 document, also
\* on the parameter itself.
PathParameters(by) ==
  {[name |-> "id", in |-> "path", required |-> TRUE, type |-> t,
    decl |-> d, mock |-> None] :
     t \in {"integer", "array"},
     d \in IF by = "swagger2" THEN {"schema", "param"} ELSE {"schema"}}

\* param.get("schema", {}).get("type", "string")
SchemaTypeOf(param) == IF param.decl = "schema" THEN param.type ELSE "string"

\* The members of the pool at the positions S, in the order of the pool.
Pick(pool, S) ==
  [i \in 1..Cardinality(S) |->
     pool[CHOOSE x \in S : Cardinality({y \in S : y <= x}) = i]]

ContentTypes ==
  {"application/json", "application/vnd.api+json", "multipart/form-data",
   "application/x-www-form-urlencoded", "application/octet-stream",
   "text/plain", "application/yaml"}

BodyMethods == {"POST", "PUT", "PATCH", "DELETE"}

(***************************************************************************)
(* prepare_request of each fuzzer, as the outcome of one call.             *)
(***************************************************************************)
\* An outcome: the exception raised ("" when the call returns), the returned
\* headers, params, body and files, and, when json.dumps was called, the
\* value tree that was to be serialized and the Content-Type it was for.
Outcome(raised, headers, params, body, files, synth, dumps) ==
  [raised |-> raised, headers |-> headers, params |-> params, body |-> body,
   files |-> files, synth |-> synth, dumps |-> dumps]

Raised(exc, synth, dumps) ==
  Outcome(exc, EmptyDict, EmptyDict, None, None, synth, dumps)

\* content_type.endswith("+json") or content_type == "application/json",
\* over ContentTypes
IsJsonFamily(ctype) ==
  ctype \in {"application/json", "application/vnd.api+json"}

Indices(ps, where) == {i \in DOMAIN ps : ps[i].in = where}

\* urllib.parse.quote on the texts str() gives for the table values of the
\* path parameter types: letters, digits and "_.-~" stay, every other
\* character of the list texts is percent-encoded
Quote(text) ==
  CASE text = "['item1', 'item2']" -> "%5B%27item1%27%2C%20%27item2%27%5D"
    [] text = "['item']" -> "%5B%27item%27%5D"
    [] OTHER -> text

\* The "path" parameters of ps that are named name
Declaring(ps, name) == {i \in Indices(ps, "path") : ps[i].name = name}

\* The text of a path whose placeholder {name} is written as fill[name]
PathText(path, fill) ==
  Join([i \in DOMAIN path |->
          IF path[i].name = "" THEN path[i].lit ELSE fill[path[i].name]], "")

\* OpenAPI3Fuzzer._generate_param_value: generate_test_value on the type of
\* the parameter's schema (the parameters here declare no format and no
\* enum, so one value is possible)
OpenAPI3GenerateParamValue(param) ==
  CHOOSE v \in GenerateTestValue("openapi3", SchemaTypeOf(param), "",
                                 <<>>, <<>>) : TRUE

\* OpenAPI3Fuzzer: url = self.base_url + path, then for every "path"
\* parameter url.replace("{name}", str(value)); a placeholder no parameter
\* names stays.  (No table value contains a brace.)
OpenAPI3Url(path, ps) ==
  BaseUrl \o
    PathText(path,
      [name \in {path[i].name : i \in DOMAIN path} |->
         IF Declaring(ps, name) = {} THEN "{" \o name \o "}"
         ELSE StrOf(OpenAPI3GenerateParamValue(
                ps[CHOOSE i \in Declaring(ps, name) :
                     \A j \in Declaring(ps, name) : i <= j]))])

\* replace_path_params of Swagger2Fuzzer and of SwaggerFuzzer: re.sub over
\* every {placeholder}; the type is schema.type of the first "path"
\* parameter of that name, "string" when there is none, and the text is
\* quote(str(table.get(type, "test"))).  The url.replace calls that follow
\* find no placeholder left.
ReplacePathParams(path, ps, table) ==
  PathText(path,
    [name \in {path[i].name : i \in DOMAIN path} |->
       LET type == IF Declaring(ps, name) = {} THEN "string"
                   ELSE SchemaTypeOf(ps[CHOOSE i \in Declaring(ps, name) :
                                          \A j \in Declaring(ps, name) : i <= j])
       IN  Quote(StrOf(IF type \in DOMAIN table THEN table[type]
                       ELSE StrVal("test")))])

\* param_in == "header" and param.get("required", False)
AllHeaders(ps) == Indices(ps, "header")
RequiredHeaders(ps) == {i \in Indices(ps, "header") : ps[i].required}

\* The assignments d[name] = value made for the parameters at the
\* positions sel, in order; vals[i] is the value for ps[i].
Assignments(ps, sel, vals) ==
  LET at == Pick([i \in DOMAIN ps |-> i], sel)
  IN  [i \in DOMAIN at |-> [name |-> ps[at[i]].name, val |-> vals[at[i]]]]

\* headers after headers[name] = str(value) for the header parameters at
\* the positions sel; values[i] is the value generated for ps[i]
WithHeaders(base, ps, sel, values) ==
  Update(base,
         FromPairs(Assignments(ps, sel,
                               [i \in DOMAIN ps |-> PyStr(values[i]).s])))

\* params after params[name] = value for the query parameters and, for a
\* GET when the fuzzer has the branch, after each "body" parameter is added
\* as well: a dict one level flattened, anything else under the
\* parameter's name.
QueryParams(ps, values, bodyToQuery) ==
  LET asQuery(param) ==
        IF param.mock.k = "map" THEN param.mock.kids
        ELSE <<[name |-> param.name, val |-> param.mock]>>
      body == Pick(ps, Indices(ps, "body"))
      flat[i \in 0..Len(body)] ==
        IF i = 0 THEN <<>> ELSE flat[i - 1] \o asQuery(body[i])
  IN  Update(FromPairs(Assignments(ps, Indices(ps, "query"), values)),
             IF bodyToQuery THEN FromPairs(flat[Len(body)]) ELSE EmptyDict)

\* OpenAPI3Fuzzer._handle_content_type
OpenAPI3HandleContentType(ctype, mock, headers, params) ==
  CASE IsJsonFamily(ctype) ->
         Outcome("", Put(headers, "Content-Type", ctype), params,
                 StrVal(JsonText(IF ContainsBinaryData(mock)
                                 THEN ConvertBinaryToString(mock) ELSE mock)),
                 None, mock, ctype)
    [] ctype = "multipart/form-data" ->
         Outcome("", headers, params, None, FilesOf(mock), None, "")
    [] ctype = "application/x-www-form-urlencoded" ->
         IF mock.k = "map"
         THEN Outcome("", Put(headers, "Content-Type", ctype), params,
                      UrlEncode(mock), None, None, "")
         ELSE Outcome("", headers, params, None, None, None, "")
    [] ctype = "application/octet-stream" ->
         Outcome("", Put(headers, "Content-Type", ctype), params,
                 BaseTestValues["octet-stream"], None, None, "")
    [] ctype = "text/plain" ->
         Outcome("", Put(headers, "Content-Type", ctype), params,
                 BaseTestValues["plain-text"], None, None, "")
    [] OTHER ->
         \* json.dumps(mock_data) if mock_data else json.dumps({"default":
         \* "test"}); a str, bytes, list or dict is falsy when empty
         LET data == IF mock.s # "" \/ mock.kids # <<>> THEN mock
                     ELSE ObjectOf("default", StrVal("test"))
         IN  IF ContainsBinaryData(data)
             THEN Raised("TypeError", data, "application/json")
             ELSE Outcome("", Put(headers, "Content-Type", "application/json"),
                          params, StrVal(JsonText(data)), None, data,
                          "application/json")

\* The body branches Swagger2Fuzzer and SwaggerFuzzer share: what they leave
\* in body, files and headers for one content type and one value, and what
\* they raise when the value has no items() or cannot be urlencoded.  An
\* unrecognised content type leaves everything as it was.
SwaggerBody(ctype, data, headers, params, body, files) ==
  CASE IsJsonFamily(ctype) ->
         IF ContainsBinaryData(data)
         THEN Raised("TypeError", data, ctype)
         ELSE Outcome("", Put(headers, "Content-Type", ctype), params,
                      StrVal(JsonText(data)), files, data, ctype)
    [] ctype = "application/x-www-form-urlencoded" ->
         IF data.k = "map"
         THEN Outcome("", Put(headers, "Content-Type", ctype), params,
                      UrlEncode(data), files, None, "")
         ELSE Raised("TypeError", None, "")
    [] ctype = "multipart/form-data" ->
         IF data.k = "map"
         THEN Outcome("", Put(headers, "Content-Type", ctype), params, body,
                      FilesOf(data), None, "")
         ELSE Raised("AttributeError", None, "")
    [] ctype = "application/octet-stream" ->
         Outcome("", Put(headers, "Content-Type", ctype), params,
                 BytesVal("00 01 02 03 04 test binary"), files, None, "")
    [] ctype = "text/plain" ->
         Outcome("", Put(headers, "Content-Type", ctype), params,
                 StrVal("This is a test plain text body"), files, None, "")
    [] OTHER -> Outcome("", headers, params, body, files, None, "")

Swagger2UserAgent ==
  "Mozilla/5.0 (Windows NT 10.0; Win64; x64) AppleWebKit/537.36 (KHTML, like Gecko) Chrome/125.0.0.0 Safari/537.36 GLS/100.10.9939.100"

\* One call of prepare_request: the fuzzer, the endpoint (method, path,
\* declared parameters, the first entry of requestBody.content or <<>> when there is
\* none, and for Swagger 2.0 the consumes list, <<>> when absent or empty)
\* and the operator's extra headers; out is the outcome once the call is
\* over.
BuildInit ==
  /\ DispatchQuiet
  /\ WalkerIdle
  /\ gen = NoCall
  /\ paths = <<>>
  /\ endpoints = <<>>
  /\ cursor = NoCall
  /\ \E by \in Dialects \cup {"SwaggerFuzzer"} :
       LET soap == by \in SoapDialects
           pool == ParameterPool(by)
           lists == {Pick(pool, S) :
                       S \in {T \in SUBSET DOMAIN pool :
                                Cardinality(T) <= MaxParams}}
           mocks == {MockScalar(by, "string"),
                     ObjectOf("f", MockScalar(by, "string")),
                     MockBinary(by),
                     ObjectOf("f", MockBinary(by)),
                     ObjectOf("f", ListOf(<<MockBinary(by)>>))}
           contents == {<<>>} \cup {<<[ctype |-> c, mock |-> m]>> :
                                      c \in ContentTypes, m \in mocks}
           consumesLists ==
             IF by = "swagger2"
             THEN {<<>>, <<"multipart/form-data">>, <<"application/yaml">>}
             ELSE {<<>>}
           \* the endpoint declares its path parameter first, or not at all
           pathLists == {<<>>} \cup {<<p>> : p \in PathParameters(by)}
       IN  \E method \in IF soap THEN {"POST"} ELSE SupportedMethods,
              pp \in IF soap THEN {<<>>} ELSE pathLists,
              rest \in IF soap THEN {<<>>} ELSE lists,
              content \in IF soap THEN {<<>>} ELSE contents,
              consumes \in consumesLists,
              extra \in {EmptyDict, "X-Api-Key" :> "k",
                         "User-Agent" :> "custom-agent"} :
             build = [pc |-> "call", by |-> by, method |-> method,
                      path |-> IF soap THEN <<>> ELSE UsersIdPath,
                      parameters |-> pp \o rest, content |-> content,
                      consumes |-> consumes, extra_headers |-> extra,
                      out |-> Raised("", None, ""), url |-> ""]

\* The call is over: out is its outcome and url the URL it returned, ""
\* when it raised.
BuildReturn(out, url) ==
  /\ build' = [build EXCEPT !.pc = "done", !.out = out,
                            !.url = IF out.raised = "" THEN url ELSE ""]
  /\ UNCHANGED <<gen, paths, endpoints, cursor, dispatchVars, sw>>

\* OpenAPI3Fuzzer.prepare_request
OpenAPI3PrepareRequest(method, ps, content) ==
  LET base == "User-Agent" :> "APIFuzz/2.0"
      values == [i \in DOMAIN ps |-> OpenAPI3GenerateParamValue(ps[i])]
      headers == WithHeaders(base, ps, Indices(ps, "header"), values)
      params == QueryParams(ps, values, method = "GET")
  IN  IF method \in {"HEAD", "OPTIONS"}
      THEN Outcome("", WithHeaders(base, ps, RequiredHeaders(ps), values),
                   EmptyDict, None, None, None, "")
      ELSE IF content # <<>> /\ method \in BodyMethods
      THEN OpenAPI3HandleContentType(content[1].ctype, content[1].mock,
                                     headers, params)
      ELSE Outcome("", headers, params, None, None, None, "")

OpenAPI3Prepare ==
  /\ build.pc = "call"
  /\ build.by = "openapi3"
  /\ BuildReturn(OpenAPI3PrepareRequest(build.method, build.parameters,
                                        build.content),
                 OpenAPI3Url(build.path, build.parameters))

\* Swagger2Fuzzer.prepare_request
Swagger2PrepareRequest(method, ps, content, consumes, extra) ==
  LET base == Update("User-Agent" :> Swagger2UserAgent, extra)
      \* self.test_values.get(ptype, "test")
      values ==
        [i \in DOMAIN ps |->
           TestValueOr("swagger2", SchemaTypeOf(ps[i]), StrVal("test"))]
      headers == WithHeaders(base, ps, Indices(ps, "header"), values)
      params == QueryParams(ps, values, method = "GET")
      body_data ==
        MapVal(Assignments(ps, Indices(ps, "body"),
                           [i \in DOMAIN ps |-> ps[i].mock]))
      content_type ==
        IF consumes # <<>> THEN consumes[1] ELSE "application/json"
      first ==
        IF Indices(ps, "body") # {} /\ method \in BodyMethods
        THEN SwaggerBody(content_type, body_data, headers, params, None, None)
        ELSE Outcome("", headers, params, None, None, None, "")
  IN  IF method \in {"HEAD", "OPTIONS"}
      THEN Outcome("", WithHeaders(base, ps, RequiredHeaders(ps), values),
                   EmptyDict, None, None, None, "")
      ELSE IF /\ first.raised = ""
              /\ content # <<>>
              /\ method \in BodyMethods
              /\ first.body = None
      THEN SwaggerBody(content[1].ctype, content[1].mock, first.headers,
                       params, first.body, first.files)
      ELSE first

Swagger2Prepare ==
  /\ build.pc = "call"
  /\ build.by = "swagger2"
  /\ BuildReturn(Swagger2PrepareRequest(build.method, build.parameters,
                                        build.content, build.consumes,
                                        build.extra_headers),
                 \* f"{self.base_url.rstrip('/')}{full_path}"
                 BaseUrl \o ReplacePathParams(build.path, build.parameters,
                                              Swagger2TestValues))

\* SwaggerFuzzer.prepare_request (APIFuzz.py)
SwaggerFuzzerPrepareRequest(ps, content, extra) ==
  LET base == Update("User-Agent" :> Swagger2UserAgent, extra)
      \* TEST_VALUES.get(ptype, "test")
      values ==
        [i \in DOMAIN ps |->
           IF SchemaTypeOf(ps[i]) \in DOMAIN SwaggerFuzzerTestValues
           THEN SwaggerFuzzerTestValues[SchemaTypeOf(ps[i])]
           ELSE StrVal("test")]
      headers == WithHeaders(base, ps, Indices(ps, "header"), values)
      params == QueryParams(ps, values, FALSE)
      default == ObjectOf("default", StrVal("test"))
  IN  IF content # <<>>
      THEN SwaggerBody(content[1].ctype, content[1].mock, headers, params,
                       None, None)
      ELSE Outcome("", Put(headers, "Content-Type", "application/json"),
                   params, StrVal(JsonText(default)), None, default,
                   "application/json")

SwaggerFuzzerPrepare ==
  /\ build.pc = "call"
  /\ build.by = "SwaggerFuzzer"
  /\ BuildReturn(SwaggerFuzzerPrepareRequest(build.parameters, build.content,
                                             build.extra_headers),
                 \* urljoin(self.base_url + "/", full_path.lstrip("/"))
                 BaseUrl \o ReplacePathParams(build.path, build.parameters,
                                              SwaggerFuzzerTestValues))

\* WSDLFuzzer.prepare_request reads self.user_agent, an attribute no
\* constructor of the class or of its base ever sets.
WsdlPrepare ==
  /\ build.pc = "call"
  /\ build.by = "wsdl"
  /\ BuildReturn(Raised("AttributeError", None, ""), "")

\* ASMXFuzzer.prepare_request; the body is the SOAP envelope
\* _generate_soap_message writes for the operation.
AsmxPrepare ==
  /\ build.pc = "call"
  /\ build.by = "asmx"
  /\ BuildReturn(
       Outcome("",
               ("Content-Type" :> "text/xml; charset=utf-8")
                 @@ ("SOAPAction" :> "\"http://tempuri.org/Op\"")
                 @@ ("Host" :> "h")
                 @@ ("User-Agent" :> "APIFuzz/2.0"),
               EmptyDict, StrVal("<soap:Envelope>...</soap:Envelope>"),
               None, None, ""),
       \* url = details['url']
       BaseUrl \o "/Service.asmx")

BuildNext ==
  \/ OpenAPI3Prepare
  \/ Swagger2Prepare
  \/ SwaggerFuzzerPrepare
  \/ WsdlPrepare
  \/ AsmxPrepare

BuildSpec == BuildInit /\ [][BuildNext]_vars

(***************************************************************************)
(* BaseFuzzer.simplify_error_message, on the text str(err) of what         *)
(* send_request raised.                                                    *)
(***************************************************************************)
MaxFragments == 2

\* error_msg.lower()
RECURSIVE LowerText(_)
LowerText(text) ==
  IF text = "" THEN ""
  ELSE LET c == SubSeq(text, 1, 1)
           at == {i \in 1..26 : SubSeq("ABCDEFGHIJKLMNOPQRSTUVWXYZ", i, i) = c}
       IN  (IF at = {} THEN c
            ELSE SubSeq("abcdefghijklmnopqrstuvwxyz",
                        CHOOSE i \in at : TRUE, CHOOSE i \in at : TRUE))
             \o LowerText(SubSeq(text, 2, Len(text)))

\* pat in text
Contains(text, pat) ==
  \E i \in 1..(Len(text) - Len(pat) + 1) :
    SubSeq(text, i, i + Len(pat) - 1) = pat

\* error_msg[:47] + "..."
CutTextLate(text) == SubSeq(text, 1, 50) \o "..."
CutText(text) == SubSeq(text, 1, 47) \o "..."

\* simplify_error_message(error_msg): the if/elif chain in its order, then
\* the cut of a text of more than 50 characters
SimplifyErrorMessage(text) ==
  IF text = "" THEN "Unknown error"
  ELSE IF Contains(text, "Connection aborted") THEN "Connection aborted"
  ELSE IF Contains(text, "Connection reset by peer") THEN "Connection reset"
  ELSE IF Contains(LowerText(text), "timeout") THEN "timeout"
  ELSE IF Contains(text, "Connection refused") THEN "Connection refused"
  ELSE IF Contains(text, "Name or service not known")
  THEN "DNS resolution failed"
  ELSE IF Contains(text, "No route to host") THEN "No route to host"
  ELSE IF Contains(text, "Network is unreachable") THEN "Network unreachable"
  ELSE IF Len(text) > 50 THEN CutText(text)
  ELSE text

\* simplify_error_message(str(err)) is called: the text is up to
\* MaxFragments fragments of error texts joined by a blank, the empty text
\* (str(Exception())) included.
ErrorInit ==
  /\ DispatchQuiet
  /\ WalkerIdle
  /\ paths = <<>>
  /\ endpoints = <<>>
  /\ cursor = NoCall
  /\ build = NoCall
  /\ LET fragments ==
           {"Connection aborted", "Connection reset by peer",
            "Connection reset", "timeout", "Read Timeout", "TIMEOUT",
            "Read timed out", "Connection refused",
            "Name or service not known", "No route to host",
            "Network is unreachable", "connection refused",
            "Max retries exceeded with url", "Errno 111",
            "HTTPSConnectionPool(host='h', port=443)",
            "0123456789012345678901234", "012345678901234567890123"}
     IN  \E ts \in UNION {[1..n -> fragments] : n \in 0..MaxFragments} :
           gen = [pc |-> "call", text |-> Join(ts, " "), out |-> ""]

\* the call returns
SimplifyCall ==
  /\ gen.pc = "call"
  /\ gen' = [gen EXCEPT !.pc = "done", !.out = SimplifyErrorMessage(gen.text)]
  /\ UNCHANGED <<dispatchVars, sw, paths, endpoints, cursor, build>>

ErrorSpec == ErrorInit /\ [][SimplifyCall]_vars

(***************************************************************************)
(* Vocabulary of the dispatcher properties.                                *)
(***************************************************************************)
\* run_threads was entered and has returned.
RunReturned == nEndpoints > 0 /\ mainpc \in {"summary", "done"}

\* The rows of self.results that belong to endpoint t, with multiplicity.
RowsOf(t) ==
  LET mine == {r \in DOMAIN results : r.task = t}
  IN  BagCardinality([r \in mine |-> results[r]])

\* No worker thread can take another step: each one was never started, has
\* ended, or sits in a queue.get() that nothing will ever satisfy.
PoolStuck ==
  \A w \in Workers :
    \/ wpc[w] \in {"idle", "dead", "exit"}
    \/ wpc[w] = "get" /\ queue = <<>>

IsHttpStatusString(s) == \E c \in 100..599 : s = Str(c)

BurpResponse == [code |-> 200, burp |-> TRUE]

(***************************************************************************)
(* C1..C9: the dispatcher.                                                 *)
(***************************************************************************)
\* C1: once run_threads has returned, self.results holds exactly one row per
\* endpoint, M rows in all, whether the endpoint's send succeeded or failed.
C1_QueueDrainComplete ==
  RunReturned =>
    /\ BagCardinality(results) = nEndpoints
    /\ \A t \in Endpoints : RowsOf(t) = 1

\* C2: after prepare_request or send_request raised for an endpoint, the pool
\* is never left with every worker gone while endpoints are still queued.
C2_Isolation ==
  (\E t \in Endpoints : failed[t]) =>
    ~(mainpc = "join" /\ queue # <<>> /\ PoolStuck)

\* C3: run_threads is never blocked in queue.join() with unfinished tasks
\* while no worker can take a step, i.e. the join barrier always returns.
C3_ForwardProgress ==
  ~(mainpc = "join" /\ unfinished > 0 /\ PoolStuck)

\* C4: when run_threads has returned the queue is empty and no worker still
\* holds an endpoint; from then on self.results does not change, and the
\* report is taken from that final collection.
C4_JoinBarrier ==
  /\ [](RunReturned => queue = <<>> /\ \A w \in Workers : wtask[w] = 0)
  /\ [][RunReturned => results' = results]_vars
  /\ [](RunReturned /\ mainpc = "done" => report = results)

C4_Witness ==
  /\ mainpc = "done"
  /\ threads = 2
  /\ nEndpoints = 2
  /\ BagCardinality(results) >= 2

\* C5: nothing is enqueued once the workers run, every endpoint is dequeued
\* at most once (exactly once when the run has returned), and an endpoint
\* for which prepare_request or send_request raised is never sent again.
C5_NoRetryNoRequeue ==
  /\ [](\A t \in 1..MaxEndpoints : deq[t] <= 1)
  /\ [](RunReturned => \A t \in Endpoints : deq[t] = 1)
  /\ [][mainpc # "fuzz" => (queue' = queue \/ queue' = Tail(queue))]_vars
  /\ [][\A w \in Workers :
         (wpc'[w] = "send" /\ wpc[w] # "send") => ~failed[wtask[w]]]_vars

C5_Witness ==
  /\ RunReturned
  /\ nEndpoints = 2
  /\ threads = 2
  /\ failed[1]
  /\ ~failed[2]
  /\ \A t \in Endpoints : deq[t] = 1

\* C6: run_threads starts exactly self.threads workers, and at no time are
\* more than self.threads workers inside send_request.
C6_BoundedConcurrency ==
  /\ spawned <= threads
  /\ Cardinality({w \in Workers : wpc[w] # "idle"}) = spawned
  /\ (mainpc = "join" \/ RunReturned) => spawned = threads
  /\ Cardinality(InFlight) <= threads

C6_Witness ==
  /\ threads = 2
  /\ Cardinality(InFlight) = 2

\* C7: every step that adds a row to self.results is taken while self.lock
\* is held.
C7_AppendUnderLock ==
  [][results' # results => lock # 0]_vars

\* C8: the status of every row of self.results is an HTTP status code as a
\* decimal string or one of the sentinels "error" and "ERROR".
C8_StatusDomain ==
  \A r \in DOMAIN results :
    IsHttpStatusString(r.status) \/ r.status \in {"error", "ERROR"}

\* C9: a worker whose send returned status 200 with the "Burp Suite"
\* signature in the body records the status "error" for that endpoint.
C9_InterceptionReclassified ==
  [][\A w \in Workers :
       (wresp[w] = BurpResponse /\ wpc'[w] # wpc[w] /\ results' # results) =>
         results' = ListAppend(results, [task |-> wtask[w], status |-> "error"])
    ]_vars

(***************************************************************************)
(* C10: the OpenAPI3 schema walker.                                        *)
(***************************************************************************)
RECURSIVE Nesting(_)
\* How many schemas are nested along the deepest path of a schema.
Nesting(schema) ==
  LET subs == {schema.items[i] : i \in DOMAIN schema.items}
                \cup {schema.props[i].schema : i \in DOMAIN schema.props}
      depths == {Nesting(x) : x \in subs}
  IN  1 + (IF depths = {} THEN 0 ELSE CHOOSE d \in depths : \A e \in depths : e <= d)

RECURSIVE RefsOf(_)
\* The distinct $ref strings that occur in a schema.
RefsOf(schema) ==
  (IF HasRef(schema) THEN {schema.ref} ELSE {})
    \cup UNION {RefsOf(schema.items[i]) : i \in DOMAIN schema.items}
    \cup UNION {RefsOf(schema.props[i].schema) : i \in DOMAIN schema.props}

DocSchemas == {TopSchema} \cup {schemas[n] : n \in DOMAIN schemas}
DocRefs == UNION {RefsOf(x) : x \in DocSchemas}
DocNesting == CHOOSE d \in {Nesting(x) : x \in DocSchemas} :
                \A x \in DocSchemas : Nesting(x) <= d

\* The recursion depth a terminating expansion can need: one block of nested
\* schemas for the argument and one for every distinct $ref.
DepthBound == (Cardinality(DocRefs) + 1) * DocNesting

\* C10: whatever the components/schemas graph, cycles included, the
\* recursion depth of mock_schema never exceeds the bound given by the
\* number of distinct refs and the schema nesting, no $ref is on the
\* recursion path twice, and the expansion can always go on until it returns.
C10_ExpansionTerminates ==
  /\ Len(stack) <= DepthBound
  /\ \A i, j \in DOMAIN stack :
       (i < j /\ stack[i].stage = "ref" /\ stack[j].stage = "ref") =>
         stack[i].schema.ref # stack[j].schema.ref
  /\ stack # <<>> => ENABLED SchemaNext

C10_Witness ==
  /\ stack = <<>>
  /\ schemas[1] = ObjectSchema(<<Prop("self", RefSchema(CompRef(2)))>>)
  /\ schemas[2] = ArraySchema(RefSchema(CompRef(1)))
  /\ ret = MapVal(<<[name |-> "self",
                     val |-> ListVal(StrVal("<circular-ref>"))]>>)

\* C11: an activation of mock_schema that is given a $ref already in
\* visited_refs returns the literal "<circular-ref>" at once, pushing no
\* activation and leaving visited_refs alone; and for {"$ref": A} where
\* A.properties.self is {"$ref": A} the finished expansion is a mapping whose
\* self entry is "<circular-ref>".
C11_CycleSentinel ==
  /\ [][(/\ stack # <<>>
          /\ Top.stage = "enter"
          /\ HasRef(Top.schema)
          /\ Top.schema.ref \in visited_refs)
         => (/\ ret' = StrVal("<circular-ref>")
             /\ stack' = Popped
             /\ visited_refs' = visited_refs)]_vars
  /\ []((/\ stack = <<>>
         /\ schemas # <<>>
         /\ schemas[1].type = "object"
         /\ schemas[1].props # <<>>
         /\ schemas[1].props[1] = Prop("self", TopSchema))
        => (/\ ret.k = "map"
            /\ ret.kids[1] = [name |-> "self",
                               val |-> StrVal("<circular-ref>")]))

C11_Witness ==
  /\ stack = <<>>
  /\ schemas # <<>>
  /\ schemas[1] = ObjectSchema(<<Prop("self", TopSchema)>>)
  /\ ret = MapVal(<<[name |-> "self", val |-> StrVal("<circular-ref>")]>>)

\* C12: Swagger2Fuzzer.mock_schema returns for every definitions graph,
\* cyclic ones included: the recursion never reaches the depth at which the
\* interpreter gives up, and the call never ends in RecursionError.
C12_Swagger2ExpansionTerminates ==
  /\ Len(stack) < RecursionLimit
  /\ ret # RecursionError

\* C13: a call of generate_test_value with a non-empty enum returns a member
\* of that enum, whatever the type, format and items arguments are.
C13_EnumRespected ==
  (gen.pc = "done" /\ gen.enum # <<>>) =>
    \E i \in DOMAIN gen.enum : gen.out = gen.enum[i]

C13_Witness ==
  /\ gen.pc = "done"
  /\ gen.type = "integer"
  /\ gen.format = "int32"
  /\ gen.enum = <<StrVal("red"), IntVal(7)>>
  /\ gen.out = IntVal(7)
  /\ dialect = "swagger2"

\* The (path, key) entries of the document whose key is one of the seven
\* verbs in any letter case.
VerbEntries ==
  {e \in (DOMAIN paths) \X (1..MaxKeys) :
     /\ e[2] \in DOMAIN paths[e[1]]
     /\ Upper(paths[e[1]][e[2]]) \in
          {"GET", "POST", "PUT", "DELETE", "PATCH", "HEAD", "OPTIONS"}}

\* C14: when extract_endpoints has returned, self.endpoints holds exactly
\* one endpoint for every (path, key) entry whose key is one of the seven
\* verbs in any letter case and none for any other key: N such entries give
\* N endpoints, each with one of the seven verbs as its method.
C14_ExtractionCoverage ==
  cursor.pc = "done" =>
    /\ Len(endpoints) = Cardinality(VerbEntries)
    /\ \A i \in DOMAIN endpoints :
         endpoints[i].method \in
           {"GET", "POST", "PUT", "DELETE", "PATCH", "HEAD", "OPTIONS"}
    /\ \A e \in VerbEntries :
         Cardinality({i \in DOMAIN endpoints :
            endpoints[i] = [method |-> Upper(paths[e[1]][e[2]]),
                            path |-> e[1],
                            details |-> paths[e[1]][e[2]]]}) = 1

C14_Witness ==
  /\ cursor.pc = "done"
  /\ paths = <<<<"Head", "trace">>, <<"parameters", "get">>>>
  /\ endpoints = <<[method |-> "HEAD", path |-> 1, details |-> "Head"],
                   [method |-> "GET", path |-> 2, details |-> "get"]>>

(***************************************************************************)
(* Properties of prepare_request.                                          *)
(***************************************************************************)
\* A call of prepare_request that returned a request.
Built == build.pc = "done" /\ build.out.raised = ""

\* C15: every request a fuzzer's prepare_request returns has a User-Agent
\* header and every key of the operator's extra_headers, and where the
\* operator gave a User-Agent of their own, that value is the one in the
\* request.
C15_HeaderLayering ==
  Built =>
    /\ "User-Agent" \in DOMAIN build.out.headers
    /\ \A key \in DOMAIN build.extra_headers :
         /\ key \in DOMAIN build.out.headers
         /\ key = "User-Agent" =>
              build.out.headers[key] = build.extra_headers[key]


\* The names of the header parameters an endpoint declares, required or not.
HeaderParamNames(required) ==
  {build.parameters[i].name :
     i \in {j \in DOMAIN build.parameters :
              /\ build.parameters[j].in = "header"
              /\ build.parameters[j].required = required}}

\* C16: for a HEAD or OPTIONS endpoint, prepare_request of OpenAPI3Fuzzer and
\* of Swagger2Fuzzer returns with no query parameters, no body and no files,
\* and of the declared header parameters the required ones are in the
\* headers and the others are not.
C16_HeadOptionsShape ==
  (/\ build.pc = "done"
   /\ build.by \in RestDialects
   /\ build.method \in {"HEAD", "OPTIONS"}) =>
    /\ build.out.raised = ""
    /\ build.out.params = EmptyDict
    /\ build.out.body = None
    /\ build.out.files = None
    /\ HeaderParamNames(TRUE) \subseteq DOMAIN build.out.headers
    /\ HeaderParamNames(FALSE) \cap DOMAIN build.out.headers = {}
    /\ DOMAIN build.out.headers \subseteq
         {"User-Agent"} \cup DOMAIN build.extra_headers
                        \cup HeaderParamNames(TRUE)

C16_Witness ==
  /\ build.pc = "done"
  /\ build.by = "swagger2"
  /\ build.method = "OPTIONS"
  /\ HeaderParamNames(TRUE) = {"X-Req"}
  /\ HeaderParamNames(FALSE) = {"X-Opt"}
  /\ build.content # <<>>
  /\ DOMAIN build.out.headers = {"User-Agent", "X-Api-Key", "X-Req"}
  /\ build.out.params = EmptyDict
  /\ build.out.body = None


\* The positions of the "body" parameters of the endpoint.
BodyParams == {i \in DOMAIN build.parameters : build.parameters[i].in = "body"}

\* C17: for a GET endpoint, prepare_request of every REST fuzzer returns
\* with body None and files None, and every "body" parameter is in the
\* query parameters: the keys of a mapping value each with its value, any
\* other value under the parameter's name.  (No two "body" parameters of
\* the endpoints here provide the same key.)
C17_GetHasNoBody ==
  (/\ build.pc = "done"
   /\ build.by \in RestBuilders
   /\ build.method = "GET") =>
    /\ build.out.raised = ""
    /\ build.out.body = None
    /\ build.out.files = None
    /\ \A i \in BodyParams :
         LET value == build.parameters[i].mock
         IN  IF value.k = "map"
             THEN \A j \in DOMAIN value.kids :
                    /\ value.kids[j].name \in DOMAIN build.out.params
                    /\ build.out.params[value.kids[j].name] = value.kids[j].val
             ELSE /\ build.parameters[i].name \in DOMAIN build.out.params
                  /\ build.out.params[build.parameters[i].name] = value


\* C18: no REST fuzzer's prepare_request returns a request in which both
\* the body and the multipart file mapping are set.
C18_BodyXorFiles ==
  (Built /\ build.by \in RestBuilders) =>
    ~(build.out.body # None /\ build.out.files # None)


\* C19: whenever OpenAPI3Fuzzer or Swagger2Fuzzer serializes a value tree as
\* the JSON body of a request whose Content-Type is application/json or
\* ends in +json, the call does not raise and the body is the JSON text of
\* that tree with every bytes leaf replaced by its base64 string.
C19_NoRawBytesInJson ==
  (/\ build.pc = "done"
   /\ build.by \in RestDialects
   /\ IsJsonFamily(build.out.dumps)) =>
    /\ build.out.raised = ""
    /\ build.out.body = StrVal(JsonText(ConvertBinaryToString(build.out.synth)))


\* The minimal JSON object payloads: the empty object and the one-key
\* object the fuzzers use as their default.
MinimalJsonObjects == {StrVal("{}"), StrVal("{\"default\": \"test\"}")}

\* C20: for a POST, PUT, PATCH or DELETE endpoint that declares no request
\* body (no requestBody content and no "body" parameter), prepare_request of
\* every REST fuzzer returns a minimal JSON object as the body, with
\* Content-Type application/json.
C20_DefaultBody ==
  (/\ build.pc = "done"
   /\ build.by \in RestBuilders
   /\ build.method \in {"POST", "PUT", "PATCH", "DELETE"}
   /\ build.content = <<>>
   /\ BodyParams = {}) =>
    /\ build.out.raised = ""
    /\ build.out.body \in MinimalJsonObjects
    /\ "Content-Type" \in DOMAIN build.out.headers
    /\ build.out.headers["Content-Type"] = "application/json"


\* The path parameter the endpoint declares for a placeholder of its path.
DeclaredPathParams ==
  {i \in DOMAIN build.parameters :
     /\ build.parameters[i].in = "path"
     /\ \E j \in DOMAIN build.path :
          build.path[j].name = build.parameters[i].name}

\* The texts of the values the fuzzer's value table yields for a type.
SynthesizedTexts(by, type) ==
  IF by = "SwaggerFuzzer" THEN {StrOf(SwaggerFuzzerTestValues[type])}
  ELSE {StrOf(v) : v \in GenerateTestValue(by, type, "", <<>>, <<>>)}

\* C21: in the URL a REST fuzzer's prepare_request returns for
\* "/users/{id}", the placeholder of the declared path parameter id is
\* replaced by the value the value table yields for the type the parameter
\* declares, as it is or percent-encoded (an integer-typed id gives
\* /users/<integer test value>), so no placeholder of a declared parameter
\* is left.
C21_PathParamSubstituted ==
  (Built /\ build.by \in RestBuilders) =>
    \A i \in DeclaredPathParams :
      \E t \in SynthesizedTexts(build.by, build.parameters[i].type) :
        build.url \in {BaseUrl \o "/users/" \o t,
                       BaseUrl \o "/users/" \o Quote(t)}


(***************************************************************************)
(* Properties of the workers, per operation.                               *)
(***************************************************************************)
\* The endpoints whose task_done was called: taken from the queue and no
\* longer held by a worker.
Finished == {t \in Endpoints : deq[t] = 1 /\ \A w \in Workers : wtask[w] # t}

\* The page namespace and the URL-derived one differ in more than trailing
\* slashes.
NamespacesDisagree == page_ns.stem # FallbackNamespace.stem

\* An ASMX operation counts once in the progress bar and once in task_done:
\* progress is ahead of the finished operations only by the workers between
\* progress.update and task_done.
AsmxCountedOnce ==
  /\ progress = Cardinality(Finished)
                  + Cardinality({w \in Workers : wpc[w] \in {"sleep", "task_done"}})
  /\ mainpc # "fuzz" => unfinished = nEndpoints - Cardinality(Finished)

C23_WsdlOneRequestPerOperation ==
  dialect = "wsdl" =>
    /\ \A t \in Endpoints : sent[t] <= 1 /\ RowsOf(t) <= 1
    /\ (RunReturned \/ (mainpc = "join" /\ PoolStuck)) =>
         \A t \in Endpoints : sent[t] = 1 /\ RowsOf(t) = 1


(***************************************************************************)
(* C26: the states of a task.                                              *)
(***************************************************************************)
\* The state of endpoint t, read off the worker that holds it.  Queued: not
\* yet handed out by queue.get().  Building: its worker is in
\* prepare_request, or (REST) in the pacing delay before the send.  Sent: its
\* worker is in send_request, or (ASMX) is recording the answer to the first
\* of two requests.  Completed / Failed: the last attempt is over.
TaskState(t) ==
  LET outcome == IF failed[t] THEN "Failed" ELSE "Completed"
  IN  IF deq[t] = 0 THEN "Queued"
      ELSE IF \E w \in Workers : wtask[w] = t
      THEN LET w == CHOOSE x \in Workers : wtask[x] = t
           IN  IF \/ wpc[w] = "build"
                  \/ wpc[w] = "sleep" /\ dialect \in RestDialects
               THEN "Building"
               ELSE IF \/ wpc[w] = "send"
                       \/ wpc[w] \in {"acquire", "append"} /\ wpend[w].cont = "build"
               THEN "Sent"
               ELSE outcome
      ELSE outcome

\* Queued -> Building -> Sent -> {Completed | Failed}
StatedEdges ==
  {<<"Queued", "Building">>, <<"Building", "Sent">>,
   <<"Sent", "Completed">>, <<"Sent", "Failed">>}

\* A finished task is never touched again.
TerminalIsFinal(t) ==
  (deq[t] = 1 /\ \A w \in Workers : wtask[w] # t) =>
    /\ deq'[t] = deq[t]
    /\ sent'[t] = sent[t]
    /\ results' # results => RowsOf(t)' = RowsOf(t)
    /\ TaskState(t)' = TaskState(t)

\* The step records a row for endpoint t.
RowRecorded(t) == results' # results /\ RowsOf(t)' # RowsOf(t)

\* C26: as stated: each task moves only along Queued -> Building -> Sent ->
\* {Completed | Failed}: a row is recorded for it only after a send_request
\* for it returned or raised, and a finished task never changes again.
C26_PerTaskStateOrder ==
  [][\A t \in Endpoints :
       LET from == TaskState(t)
           to == TaskState(t)'
       IN  /\ to # from => <<from, to>> \in StatedEdges
           /\ RowRecorded(t) =>
                /\ sent[t] >= 1
                /\ \A w \in Workers : wtask[w] = t => wpc[w] # "send"
           /\ TerminalIsFinal(t)]_vars

\* C26, amended: each task moves only along Queued -> Building -> Sent ->
\* {Completed | Failed}, with two more edges: Building -> Failed when
\* prepare_request raises (no request is sent), and, ASMX only, Sent ->
\* Building once, for the fallback request, when the namespaces disagree and
\* the first request was answered.  A row is recorded only after a
\* send_request for the task returned or raised or its prepare_request
\* raised, and a finished task never changes again.
C26_PerTaskStateOrderWithBuildFailure ==
  [][\A t \in Endpoints :
       LET from == TaskState(t)
           to == TaskState(t)'
       IN  /\ to # from =>
                \/ <<from, to>> \in StatedEdges
                \/ /\ from = "Building"
                   /\ to = "Failed"
                   /\ sent'[t] = sent[t]
                \/ /\ from = "Sent"
                   /\ to = "Building"
                   /\ dialect = "asmx"
                   /\ NamespacesDisagree
                   /\ sent[t] = 1
           /\ to = "Sent" => sent'[t] >= 1 /\ deq[t] = 1
           /\ RowRecorded(t) =>
                /\ sent[t] >= 1 \/ failed[t]
                /\ \A w \in Workers : wtask[w] = t => wpc[w] \notin {"build", "send"}
           /\ TerminalIsFinal(t)]_vars

\* Both extra edges were taken in one ASMX run: endpoint 1 went through
\* Building and Sent twice, endpoint 2 failed in prepare_request and has its
\* error row without ever being sent.
C26_Witness ==
  /\ dialect = "asmx"
  /\ RunReturned
  /\ nEndpoints = 2
  /\ sent[1] = 2
  /\ TaskState(1) = "Completed"
  /\ sent[2] = 0
  /\ TaskState(2) = "Failed"
  /\ RowsOf(2) = 1


(***************************************************************************)
(* C27: the results lock and the suspension points.                        *)
(***************************************************************************)
\* The workers inside send_request or inside time.sleep(self.delay).
Suspended == {w \in Workers : wpc[w] \in {"send", "sleep"}}

\* C27: a worker that is inside the outbound HTTP call or inside the pacing
\* delay does not hold self.lock; whoever holds it is inside the with block
\* around self.results.append.
C27_NoLockAcrossSuspension ==
  /\ \A w \in Suspended : lock # w
  /\ lock # 0 => wpc[lock] = "append"

\* One worker is inside the HTTP call of its second request while the other
\* holds the lock.
C27_Witness ==
  \E w \in Suspended :
    /\ wpc[w] = "send"
    /\ wreq[w] = 2
    /\ lock \in Workers \ {w}


(***************************************************************************)
(* C28: task_done accounting.                                              *)
(***************************************************************************)
\* The items queue.get() has handed out, and those a worker still holds:
\* obtained, task_done not yet called.
Obtained == {t \in Endpoints : deq[t] >= 1}
Held == {t \in Endpoints : \E w \in Workers : wtask[w] = t}

\* C28: task_done is called exactly once for each item obtained by
\* queue.get(), on every path: once the endpoints are enqueued the
\* unfinished-task count of the queue is M minus the number of finished
\* tasks, the finished tasks being the obtained ones no worker holds any
\* more; no item is obtained twice or held by two workers; and the count
\* never drops below zero.
C28_TaskDoneAccounting ==
  /\ unfinished >= 0
  /\ mainpc # "fuzz" =>
       LET finished == Finished
       IN  /\ unfinished = nEndpoints - Cardinality(finished)
           /\ finished = Obtained \ Held
           /\ Len(queue) = nEndpoints - Cardinality(Obtained)
  /\ \A t \in Endpoints : deq[t] <= 1
  /\ \A w \in Workers :
       IF wpc[w] \in {"idle", "start", "loop", "get", "exit", "dead"}
       THEN wtask[w] = 0
       ELSE \A v \in Workers : wtask[v] = wtask[w] => v = w

\* A REST run is over in which prepare_request raised for endpoint 1 (the
\* finally path) and endpoint 2 was sent and answered: both are accounted
\* for.
C28_Witness ==
  /\ dialect \in RestDialects
  /\ RunReturned
  /\ nEndpoints = 2
  /\ failed[1] /\ sent[1] = 0
  /\ ~failed[2] /\ sent[2] = 1
  /\ unfinished = 0
  /\ \E w \in Workers : wpc[w] = "dead"


(***************************************************************************)
(* C29: visited_refs across the activations of OpenAPI3 mock_schema.       *)
(***************************************************************************)
\* The activations that follow a $ref and wait for their recursive call:
\* the ancestors of the innermost activation on the expansion path.
RefAncestors == {i \in DOMAIN stack : stack[i].stage = "ref"}

\* A schema without any $ref, and the value its expansion is: what
\* mock_schema gives for its type, with one element for its items and one
\* entry for each of its first PropertyCap properties.
RefFree(schema) ==
  /\ ~HasRef(schema)
  /\ \A i \in DOMAIN schema.items : ~HasRef(schema.items[i])
  /\ \A i \in DOMAIN schema.props : ~HasRef(schema.props[i].schema)
PlainExpansion(schema) ==
  IF ~Recurses(schema) THEN LeafValue(schema)
  ELSE IF SchemaType(schema) = "array" THEN ListVal(LeafValue(schema.items[1]))
  ELSE MapVal([i \in DOMAIN PropertyItems(schema) |->
                 [name |-> PropertyItems(schema)[i].name,
                  val |-> LeafValue(PropertyItems(schema)[i].schema)]])

\* Two sibling properties that reference the same schema, which has no $ref
\* itself.
SiblingsShareRefFree ==
  /\ schemas # <<>>
  /\ NumSchemas \in DOMAIN schemas
  /\ schemas[1].type = "object"
  /\ Len(schemas[1].props) >= 2
  /\ schemas[1].props[1].schema = RefSchema(CompRef(NumSchemas))
  /\ schemas[1].props[2].schema = RefSchema(CompRef(NumSchemas))
  /\ RefFree(schemas[NumSchemas])

\* C29: visited_refs is at every moment exactly the set of the $refs the
\* waiting ancestors follow, so each activation finds it on return as it
\* left it and the finished top-level call leaves it empty; the sentinel is
\* returned only for a $ref one of these ancestors follows; and two sibling
\* properties that reference the same schema without $refs both get its
\* full expansion.
C29_VisitedSetRestored ==
  /\ [](visited_refs = {stack[i].schema.ref : i \in RefAncestors})
  /\ [](stack = <<>> => visited_refs = {})
  /\ [][(stack # <<>> /\ ret' = CircularRef /\ stack' = Popped /\ Top.stage = "enter")
          => \E i \in RefAncestors : stack[i].schema.ref = Top.schema.ref]_vars
  /\ [][(stack # <<>> /\ Len(stack') < Len(stack))
          => visited_refs' = {stack'[i].schema.ref :
                                i \in {j \in DOMAIN stack' : stack'[j].stage = "ref"}}]_vars
  /\ []((stack = <<>> /\ SiblingsShareRefFree)
          => /\ ret.k = "map"
             /\ ret.kids[1].val = PlainExpansion(schemas[NumSchemas])
             /\ ret.kids[2].val = PlainExpansion(schemas[NumSchemas]))

\* The expansion of {self: {$ref: B}, other: {$ref: B}} is over, B being an
\* array of strings: both entries are ["test"] and visited_refs is empty.
C29_Witness ==
  /\ stack = <<>>
  /\ SiblingsShareRefFree
  /\ schemas[NumSchemas] = ArraySchema(StringSchema)
  /\ ret.kids[1] = [name |-> "self", val |-> ListVal(StrVal("test"))]
  /\ ret.kids[2] = [name |-> "other", val |-> ListVal(StrVal("test"))]
  /\ visited_refs = {}


(***************************************************************************)
(* C30: the property cap of OpenAPI3 mock_schema.                          *)
(***************************************************************************)
\* The first min(n, 3) of the n properties an object schema declares.
FirstThree(schema) ==
  SubSeq(schema.props, 1, IF Len(schema.props) < 3 THEN Len(schema.props) ELSE 3)

\* value is a mapping whose keys are the names of the first min(n, 3)
\* properties of schema, in declaration order.
KeysAreFirstThree(value, schema) ==
  /\ value.k = "map"
  /\ Len(value.kids) = Len(FirstThree(schema))
  /\ \A i \in DOMAIN value.kids : value.kids[i].name = FirstThree(schema)[i].name

\* C30: every activation of mock_schema on an object schema declaring n >= 1
\* properties returns a mapping whose keys are exactly the first min(n, 3)
\* declared names in declaration order, each entry holding what the
\* recursive call on that property's schema returned; for the finished
\* top-level call the entry of a property without $ref is the expansion of
\* its schema, and no property after the third appears.
C30_ObjectPropertyCap ==
  /\ [][(stack # <<>> /\ Top.stage = "object")
          => /\ Top.idx <= 3
             /\ \E i \in DOMAIN Top.schema.props :
                  /\ i = Top.idx
                  /\ IF Len(stack') < Len(stack)
                     THEN /\ KeysAreFirstThree(ret', Top.schema)
                          /\ ret'.kids[i].val = ret
                          /\ \A j \in 1..(i - 1) : ret'.kids[j] = Top.acc[j]
                     ELSE /\ stack'[Len(stack)].acc =
                               Append(Top.acc, [name |-> Top.schema.props[i].name,
                                                val |-> ret])
                          /\ stack'[Len(stack')].schema = Top.schema.props[i + 1].schema]_vars
  /\ []((/\ stack = <<>>
         /\ schemas # <<>>
         /\ schemas[1].type = "object"
         /\ schemas[1].props # <<>>)
        => /\ KeysAreFirstThree(ret, schemas[1])
           /\ \A i \in DOMAIN ret.kids :
                RefFree(schemas[1].props[i].schema) =>
                  ret.kids[i].val = PlainExpansion(schemas[1].props[i].schema))

\* The expansion of an object declaring five properties is over: its value
\* has the three keys self, other, third.
C30_Witness ==
  /\ stack = <<>>
  /\ schemas # <<>>
  /\ Len(schemas[1].props) = 5
  /\ ret = MapVal(<<[name |-> "self", val |-> StrVal("test")],
                    [name |-> "other", val |-> StrVal("test")],
                    [name |-> "third", val |-> StrVal("test")]>>)


(***************************************************************************)
(* C24: WSDLFuzzer.extract_endpoints.                                      *)
(***************************************************************************)
\* The ports of the document, as (service, port) positions.
WsdlPorts ==
  {sp \in (DOMAIN paths.services) \X (1..MaxPorts) :
     sp[2] \in DOMAIN paths.services[sp[1]]}

\* The name a reference ends in, after its last colon.
LocalName(ref) == ref[Len(ref)]

\* The operations of the port type a port's chain port -> binding ->
\* portType leads to; <<>> when the binding or the port type is not
\* declared under that name.
ChainOperations(sp) ==
  LET b == LocalName(paths.services[sp[1]][sp[2]])
  IN  IF b \notin DOMAIN paths.bindings THEN <<>>
      ELSE IF LocalName(paths.bindings[b]) \notin DOMAIN paths.port_types
      THEN <<>>
      ELSE paths.port_types[LocalName(paths.bindings[b])]

\* The endpoints extracted for a port, in order.
EndpointsOf(sp) ==
  SelectSeq(endpoints, LAMBDA e : e.service = sp[1] /\ e.port = sp[2])

FixedLabels ==
  {"timeout", "Connection aborted", "Connection reset", "Connection refused",
   "DNS resolution failed", "No route to host", "Network unreachable"}

\* One of the texts the function looks for occurs in the raw text.
SomePatternOccurs(text) ==
  \/ Contains(text, "Connection aborted")
  \/ Contains(text, "Connection reset by peer")
  \/ Contains(LowerText(text), "timeout")
  \/ Contains(text, "Connection refused")
  \/ Contains(text, "Name or service not known")
  \/ Contains(text, "No route to host")
  \/ Contains(text, "Network is unreachable")

\* The label is justified by a substring of the raw text.
LabelMatches(label, text) ==
  CASE label = "Connection aborted" -> Contains(text, "Connection aborted")
    [] label = "Connection reset" -> Contains(text, "Connection reset by peer")
    [] label = "timeout" -> Contains(LowerText(text), "timeout")
    [] label = "Connection refused" -> Contains(text, "Connection refused")
    [] label = "DNS resolution failed" ->
         Contains(text, "Name or service not known")
    [] label = "No route to host" -> Contains(text, "No route to host")
    [] label = "Network unreachable" ->
         Contains(text, "Network is unreachable")
    [] OTHER -> FALSE

\* out is the raw text, cut to 50 characters when it is longer: its first 47
\* characters and "..."
RawOrCut(out, text) ==
  IF Len(text) > 50 THEN out = SubSeq(text, 1, 47) \o "..." ELSE out = text

\* C25, as stated: the result of simplify_error_message is, for every raw
\* text, one of the seven fixed labels, chosen by a substring of the text,
\* and otherwise the raw text cut to at most 50 characters; it is never
\* longer than 50 characters.
C25_ErrorClassification ==
  gen.pc = "done" =>
    /\ IF SomePatternOccurs(gen.text)
       THEN gen.out \in FixedLabels /\ LabelMatches(gen.out, gen.text)
       ELSE RawOrCut(gen.out, gen.text)
    /\ Len(gen.out) <= 50

\* C25, amended: the empty text gives "Unknown error"; every other text
\* gives one of the seven fixed labels when one of their substrings occurs
\* ("timeout" in any letter case), a label whose substring does occur, and
\* otherwise the raw text itself, or its first 47 characters and "..." when
\* it is longer than 50; the result is never longer than 50 characters.
C25_ErrorClassificationOrUnknown ==
  gen.pc = "done" =>
    /\ IF gen.text = "" THEN gen.out = "Unknown error"
       ELSE IF SomePatternOccurs(gen.text)
       THEN gen.out \in FixedLabels /\ LabelMatches(gen.out, gen.text)
       ELSE RawOrCut(gen.out, gen.text)
    /\ Len(gen.out) <= 50

C25_Witness ==
  /\ gen.pc = "done"
  /\ gen.text = "HTTPSConnectionPool(host='h', port=443) Max retries exceeded with url"
  /\ gen.out = "HTTPSConnectionPool(host='h', port=443) Max ret..."

====
